---- MODULE Spec2Model ----
(***************************************************************************)
(* Verification model of the cap-rate dashboard's deal engine              *)
(* (dashboard/js/models/DealModel.js), of the market validation service    *)
(* (dashboard/js/components/ChartManager.js), of the data service          *)
(* (dashboard/js/services/DataService.js) and of the statistics of the     *)
(* dashboard controller (dashboard/js/components/DashboardController.js).  *)
(*                                                                         *)
(* JavaScript numbers are modelled as exact extended rationals             *)
(* [n |-> numerator, d |-> denominator]: d > 0 and gcd(n, d) = 1 for a     *)
(* finite value, 1/0 is Infinity, -1/0 is -Infinity and 0/0 is NaN, with   *)
(* the IEEE rules for arithmetic and comparison on them.  Rounding error   *)
(* of binary floating point and the sign of zero are not modelled.         *)
(***************************************************************************)
EXTENDS Integers, Sequences, FiniteSets, TLC

VARIABLES
    deal,           \* the six input fields of the DealModel instance `this`
    _calculations,  \* this._calculations: NULL or the cached metrics object
    cacheWrites,    \* number of assignments made to this._calculations
    ret,            \* the last call and the value it returned
    file,           \* the rows of historical_cap_rates.csv on the server
    data,           \* DataService.data: NULL or the rows parsed from the file
    processedData,  \* DataService.processedData: NULL or the processed records
    app,            \* the CapRateDashboardApp: its fields and the place init() has reached
    controller,     \* the DashboardController: its fields
    dom,            \* the page: the values of the form, the texts shown, the listeners wired
    dispatch        \* the event being dispatched and its listeners still to run

dealVars == <<deal, _calculations, cacheWrites>>
serviceVars == <<file, data, processedData>>
pageVars == <<app, controller, dom, dispatch>>
vars == <<deal, _calculations, cacheWrites, ret, file, data, processedData,
          app, controller, dom, dispatch>>

NULL == [null |-> TRUE]

-----------------------------------------------------------------------------
(* JavaScript numbers *)

Abs(i) == IF i < 0 THEN -i ELSE i

Sign(i) == IF i < 0 THEN -1 ELSE IF i > 0 THEN 1 ELSE 0

\* Euclid's algorithm on naturals
RECURSIVE GCD(_, _)
GCD(a, b) == IF b = 0 THEN a ELSE GCD(b, a % b)

\* n / d with the common divisor g of n and d taken out
Reduced(n, d, g) == [n |-> Sign(d) * (n \div g), d |-> Abs(d) \div g]

\* the value n / d in normal form
Rat(n, d) ==
    IF d = 0 THEN [n |-> Sign(n), d |-> 0] ELSE Reduced(n, d, GCD(Abs(n), Abs(d)))

N(i) == [n |-> i, d |-> 1]

NaN == [n |-> 0, d |-> 0]

IsNaN(a) == a.d = 0 /\ a.n = 0

IsFinite(a) == a.d # 0

RAdd(a, b) ==
    IF IsNaN(a) \/ IsNaN(b) THEN NaN
    ELSE IF a.d = 0 /\ b.d = 0 THEN (IF a.n = b.n THEN a ELSE NaN)
    ELSE IF a.d = 0 THEN a
    ELSE IF b.d = 0 THEN b
    ELSE Rat(a.n * b.d + b.n * a.d, a.d * b.d)

RNeg(a) == [n |-> -a.n, d |-> a.d]

RSub(a, b) == RAdd(a, RNeg(b))

RMul(a, b) == Rat(a.n * b.n, a.d * b.d)

RDiv(a, b) == RMul(a, Rat(b.d, b.n))

\* a < b; every comparison with NaN is false
RLt(a, b) ==
    IF IsNaN(a) \/ IsNaN(b) THEN FALSE
    ELSE IF a.d = 0 THEN a.n < 0 /\ b # a
    ELSE IF b.d = 0 THEN b.n > 0
    ELSE a.n * b.d < b.n * a.d

RLe(a, b) == ~IsNaN(a) /\ ~IsNaN(b) /\ (a = b \/ RLt(a, b))

RGt(a, b) == RLt(b, a)

RGe(a, b) == RLe(b, a)

\* a === b
REq(a, b) == ~IsNaN(a) /\ ~IsNaN(b) /\ a = b

\* the decimal literal n / scale written in the source
Dec(n, scale) == Rat(n, scale)

Square(a) == RMul(a, a)

\* a to the k-th power, by repeated squaring
RECURSIVE IntPow(_, _)
IntPow(a, k) ==
    IF k = 0 THEN N(1)
    ELSE IF k % 2 = 0 THEN Square(IntPow(a, k \div 2))
    ELSE RMul(a, IntPow(a, k - 1))

\* Math.pow(x, y) for the whole exponents the model's inputs produce
MathPow(x, y) ==
    IF y.d = 1 /\ y.n >= 0 THEN IntPow(x, y.n)
    ELSE IF y.d = 1 THEN RDiv(N(1), IntPow(x, -y.n))
    ELSE NaN

\* Math.round(x): the nearest integer, halves towards +Infinity
MathRound(x) ==
    IF x.d = 0 THEN x ELSE N((2 * x.n + x.d) \div (2 * x.d))

RECURSIVE Pow10(_)
Pow10(k) == IF k = 0 THEN 1 ELSE 10 * Pow10(k - 1)

\* x scaled by s and rounded to a whole number of 1/s, halves away from zero
RoundedAt(x, s) == Rat(Sign(x.n) * ((2 * Abs(x.n) * s + x.d) \div (2 * x.d)), s)

\* parseFloat(x.toFixed(k)): k decimals, halves away from zero
ToFixed(x, k) == IF x.d = 0 THEN x ELSE RoundedAt(x, Pow10(k))

-----------------------------------------------------------------------------
(* DealModel *)

\* new DealModel(propertyValue, annualNOI, loanAmount, interestRate,
\*               amortizationYears, sofrRate)
DealModel(propertyValue, annualNOI, loanAmount, interestRate, amortizationYears, sofrRate) ==
    [propertyValue |-> propertyValue, annualNOI |-> annualNOI,
     loanAmount |-> loanAmount, interestRate |-> interestRate,
     amortizationYears |-> amortizationYears, sofrRate |-> sofrRate]

\* loanAmount * (monthlyRate * growth) / (growth - 1), where growth is
\* Math.pow(1 + monthlyRate, totalPayments)
Amortized(loanAmount, monthlyRate, growth) ==
    RDiv(RMul(loanAmount, RMul(monthlyRate, growth)), RSub(growth, N(1)))

\* Payment without the branch for a monthly rate of 0
PaymentNoZeroCase(loanAmount, monthlyRate, totalPayments) ==
    Amortized(loanAmount, monthlyRate, MathPow(RAdd(N(1), monthlyRate), totalPayments))

\* the monthly payment of a loan at monthlyRate over totalPayments months
Payment(loanAmount, monthlyRate, totalPayments) ==
    IF REq(monthlyRate, N(0))
    THEN RDiv(loanAmount, totalPayments)
    ELSE Amortized(loanAmount, monthlyRate, MathPow(RAdd(N(1), monthlyRate), totalPayments))

\* the monthly payment calculate() derives from the inputs d
MonthlyPayment(d) ==
    Payment(d.loanAmount, RDiv(RDiv(d.interestRate, N(100)), N(12)),
            RMul(d.amortizationYears, N(12)))

\* Dscr with the quotient inverted
DscrInverted(annualNOI, annualDebtService) == RDiv(annualDebtService, annualNOI)

\* dscr = annualNOI / annualDebtService
Dscr(annualNOI, annualDebtService) == RDiv(annualNOI, annualDebtService)

\* the object calculate() assigns to the cache, given the payment it derived
Metrics(d, monthlyPayment, annualDebtService) ==
    [actualCapRate |-> RMul(RDiv(d.annualNOI, d.propertyValue), N(100)),
     actualLTV |-> RMul(RDiv(d.loanAmount, d.propertyValue), N(100)),
     dscr |-> Dscr(d.annualNOI, annualDebtService),
     annualDebtService |-> annualDebtService,
     debtConstant |-> RMul(RDiv(annualDebtService, d.loanAmount), N(100)),
     spread |-> RMul(RSub(d.interestRate, d.sofrRate), N(100)),
     breakEvenNOI |-> annualDebtService,
     monthlyPayment |-> monthlyPayment]

\* annualDebtService = monthlyPayment * 12
WithDebtService(d, monthlyPayment) ==
    Metrics(d, monthlyPayment, RMul(monthlyPayment, N(12)))

\* the body of calculate() past the cache check: the metrics of the inputs d
ComputeMetrics(d) == WithDebtService(d, MonthlyPayment(d))

\* the assignment of a new object to the cache, and its return
Stored(made, writes) ==
    [cache |-> made, writes |-> writes, result |-> made, fromCache |-> FALSE]

\* CalculateCall without the check of the cache
CalculateCallAlways(cache, writes, d) ==
    Stored([ref |-> writes + 1, metrics |-> ComputeMetrics(d)], writes + 1)

\* calculate(): returns the cached object when there is one (fromCache),
\* otherwise computes the metrics and stores them; ref names the object made
\* by the ref-th assignment to the cache (its identity)
CalculateCall(cache, writes, d) ==
    IF cache # NULL
    THEN [cache |-> cache, writes |-> writes, result |-> cache, fromCache |-> TRUE]
    ELSE Stored([ref |-> writes + 1, metrics |-> ComputeMetrics(d)], writes + 1)

\* CreditDecision with the boundaries of the first tier open
CreditDecisionOpenBoundary(m) ==
    IF RGt(m.dscr, Dec(140, 100)) /\ RLt(m.actualLTV, N(70)) /\ RGt(m.actualCapRate, Dec(60, 10))
    THEN [decision |-> "STRONG APPROVE", color |-> "#1ECD7D", risk |-> "LOW"]
    ELSE IF RGe(m.dscr, Dec(130, 100)) /\ RLe(m.actualLTV, N(75)) /\ RGe(m.actualCapRate, Dec(55, 10))
    THEN [decision |-> "APPROVE", color |-> "#1ECD7D", risk |-> "LOW"]
    ELSE IF RGe(m.dscr, Dec(125, 100)) /\ RLe(m.actualLTV, N(80)) /\ RGe(m.actualCapRate, Dec(45, 10))
    THEN [decision |-> "CONDITIONAL", color |-> "#C17B42", risk |-> "MEDIUM"]
    ELSE IF RGe(m.dscr, Dec(120, 100)) /\ RLe(m.actualLTV, N(85)) /\ RGe(m.actualCapRate, Dec(40, 10))
    THEN [decision |-> "REVIEW REQUIRED", color |-> "#371CA1", risk |-> "HIGH"]
    ELSE IF RGe(m.dscr, Dec(115, 100)) /\ RLe(m.actualLTV, N(90))
    THEN [decision |-> "HIGH RISK", color |-> "#DC3545", risk |-> "VERY_HIGH"]
    ELSE [decision |-> "DECLINE", color |-> "#DC3545", risk |-> "UNACCEPTABLE"]

\* the decision matrix with the LTV test of the second tier turned round
CreditDecisionLTVFloor(m) ==
    IF RGe(m.dscr, Dec(140, 100)) /\ RLe(m.actualLTV, N(70)) /\ RGe(m.actualCapRate, Dec(60, 10))
    THEN [decision |-> "STRONG APPROVE", color |-> "#1ECD7D", risk |-> "LOW"]
    ELSE IF RGe(m.dscr, Dec(130, 100)) /\ RGe(m.actualLTV, N(75)) /\ RGe(m.actualCapRate, Dec(55, 10))
    THEN [decision |-> "APPROVE", color |-> "#1ECD7D", risk |-> "LOW"]
    ELSE IF RGe(m.dscr, Dec(125, 100)) /\ RLe(m.actualLTV, N(80)) /\ RGe(m.actualCapRate, Dec(45, 10))
    THEN [decision |-> "CONDITIONAL", color |-> "#C17B42", risk |-> "MEDIUM"]
    ELSE IF RGe(m.dscr, Dec(120, 100)) /\ RLe(m.actualLTV, N(85)) /\ RGe(m.actualCapRate, Dec(40, 10))
    THEN [decision |-> "REVIEW REQUIRED", color |-> "#371CA1", risk |-> "HIGH"]
    ELSE IF RGe(m.dscr, Dec(115, 100)) /\ RLe(m.actualLTV, N(90))
    THEN [decision |-> "HIGH RISK", color |-> "#DC3545", risk |-> "VERY_HIGH"]
    ELSE [decision |-> "DECLINE", color |-> "#DC3545", risk |-> "UNACCEPTABLE"]

\* the decision matrix of getCreditDecision() on the metrics m
\* (the decision strings are written without their leading emoji)
CreditDecision(m) ==
    IF RGe(m.dscr, Dec(140, 100)) /\ RLe(m.actualLTV, N(70)) /\ RGe(m.actualCapRate, Dec(60, 10))
    THEN [decision |-> "STRONG APPROVE", color |-> "#1ECD7D", risk |-> "LOW"]
    ELSE IF RGe(m.dscr, Dec(130, 100)) /\ RLe(m.actualLTV, N(75)) /\ RGe(m.actualCapRate, Dec(55, 10))
    THEN [decision |-> "APPROVE", color |-> "#1ECD7D", risk |-> "LOW"]
    ELSE IF RGe(m.dscr, Dec(125, 100)) /\ RLe(m.actualLTV, N(80)) /\ RGe(m.actualCapRate, Dec(45, 10))
    THEN [decision |-> "CONDITIONAL", color |-> "#C17B42", risk |-> "MEDIUM"]
    ELSE IF RGe(m.dscr, Dec(120, 100)) /\ RLe(m.actualLTV, N(85)) /\ RGe(m.actualCapRate, Dec(40, 10))
    THEN [decision |-> "REVIEW REQUIRED", color |-> "#371CA1", risk |-> "HIGH"]
    ELSE IF RGe(m.dscr, Dec(115, 100)) /\ RLe(m.actualLTV, N(90))
    THEN [decision |-> "HIGH RISK", color |-> "#DC3545", risk |-> "VERY_HIGH"]
    ELSE [decision |-> "DECLINE", color |-> "#DC3545", risk |-> "UNACCEPTABLE"]

\* pushes item on list when cond holds
PushIf(list, cond, item) == IF cond THEN Append(list, item) ELSE list

\* the object getDealAnalysis() builds from the metrics object c
DealAnalysis(c) ==
    LET m == c.metrics
        risks ==
            PushIf(PushIf(PushIf(<<>>,
                RLt(m.dscr, Dec(125, 100)), "Low DSCR indicates tight cash flow coverage"),
                RGt(m.actualLTV, N(80)), "High LTV increases credit risk"),
                RLt(m.actualCapRate, Dec(50, 10)), "Low cap rate may indicate overvaluation")
        strengths ==
            PushIf(PushIf(PushIf(<<>>,
                RGe(m.dscr, Dec(135, 100)), "Strong debt service coverage"),
                RLe(m.actualLTV, N(70)), "Conservative loan-to-value ratio"),
                RGe(m.actualCapRate, Dec(60, 10)), "Attractive cap rate provides good returns")
        recommendations ==
            PushIf(PushIf(<<>>,
                RGt(m.actualLTV, N(75)), "Consider requiring additional equity injection"),
                RLt(m.dscr, Dec(130, 100)), "Review operating expense assumptions")
    IN  [calculations |-> c, creditDecision |-> CreditDecision(m),
         risks |-> risks, strengths |-> strengths,
         recommendations |-> recommendations]

\* ValidateInputs rejecting an index rate of 0 as it rejects a rate of 0
ValidateInputsIndexPositive(d) ==
    LET e1 == PushIf(<<>>, RLe(d.propertyValue, N(0)), "Property value must be positive")
        e2 == PushIf(e1, RLe(d.annualNOI, N(0)), "Annual NOI must be positive")
        e3 == PushIf(e2, RLe(d.loanAmount, N(0)), "Loan amount must be positive")
        e4 == PushIf(e3, RLe(d.interestRate, N(0)) \/ RGt(d.interestRate, N(20)),
                     "Interest rate must be between 0% and 20%")
        e5 == PushIf(e4, RLt(d.amortizationYears, N(1)) \/ RGt(d.amortizationYears, N(50)),
                     "Amortization must be between 1 and 50 years")
        e6 == PushIf(e5, RLe(d.sofrRate, N(0)) \/ RGt(d.sofrRate, N(10)),
                     "SOFR rate must be between 0% and 10%")
        e7 == PushIf(e6, RGt(d.loanAmount, d.propertyValue),
                     "Loan amount cannot exceed property value")
        e8 == PushIf(e7, RGt(d.annualNOI, RMul(d.propertyValue, Dec(2, 10))),
                     "NOI seems unusually high relative to property value")
        e9 == PushIf(e8, RLt(d.interestRate, d.sofrRate),
                     "Interest rate should be higher than SOFR rate")
    IN  e9

\* validateInputs(): the list of error messages for the inputs d
ValidateInputs(d) ==
    LET e1 == PushIf(<<>>, RLe(d.propertyValue, N(0)), "Property value must be positive")
        e2 == PushIf(e1, RLe(d.annualNOI, N(0)), "Annual NOI must be positive")
        e3 == PushIf(e2, RLe(d.loanAmount, N(0)), "Loan amount must be positive")
        e4 == PushIf(e3, RLe(d.interestRate, N(0)) \/ RGt(d.interestRate, N(20)),
                     "Interest rate must be between 0% and 20%")
        e5 == PushIf(e4, RLt(d.amortizationYears, N(1)) \/ RGt(d.amortizationYears, N(50)),
                     "Amortization must be between 1 and 50 years")
        e6 == PushIf(e5, RLt(d.sofrRate, N(0)) \/ RGt(d.sofrRate, N(10)),
                     "SOFR rate must be between 0% and 10%")
        e7 == PushIf(e6, RGt(d.loanAmount, d.propertyValue),
                     "Loan amount cannot exceed property value")
        e8 == PushIf(e7, RGt(d.annualNOI, RMul(d.propertyValue, Dec(2, 10))),
                     "NOI seems unusually high relative to property value")
        e9 == PushIf(e8, RLt(d.interestRate, d.sofrRate),
                     "Interest rate should be higher than SOFR rate")
    IN  e9

\* GetDSCRRisk with the lower boundary of each band open
GetDSCRRiskOpenBoundary(dscr) ==
    IF RGt(dscr, Dec(135, 100)) THEN [color |-> "#1ECD7D", level |-> "STRONG"]
    ELSE IF RGt(dscr, Dec(125, 100)) THEN [color |-> "#371CA1", level |-> "ACCEPTABLE"]
    ELSE IF RGt(dscr, Dec(115, 100)) THEN [color |-> "#C17B42", level |-> "MARGINAL"]
    ELSE [color |-> "#DC3545", level |-> "WEAK"]

\* getDSCRRisk(dscr)
GetDSCRRisk(dscr) ==
    IF RGe(dscr, Dec(135, 100)) THEN [color |-> "#1ECD7D", level |-> "STRONG"]
    ELSE IF RGe(dscr, Dec(125, 100)) THEN [color |-> "#371CA1", level |-> "ACCEPTABLE"]
    ELSE IF RGe(dscr, Dec(115, 100)) THEN [color |-> "#C17B42", level |-> "MARGINAL"]
    ELSE [color |-> "#DC3545", level |-> "WEAK"]

\* GetLTVRisk with the upper boundary of each band open
GetLTVRiskOpenBoundary(ltv) ==
    IF RLt(ltv, N(70)) THEN [color |-> "#1ECD7D", level |-> "CONSERVATIVE"]
    ELSE IF RLt(ltv, N(75)) THEN [color |-> "#371CA1", level |-> "STANDARD"]
    ELSE IF RLt(ltv, N(80)) THEN [color |-> "#C17B42", level |-> "AGGRESSIVE"]
    ELSE [color |-> "#DC3545", level |-> "HIGH_RISK"]

\* getLTVRisk(ltv)
GetLTVRisk(ltv) ==
    IF RLe(ltv, N(70)) THEN [color |-> "#1ECD7D", level |-> "CONSERVATIVE"]
    ELSE IF RLe(ltv, N(75)) THEN [color |-> "#371CA1", level |-> "STANDARD"]
    ELSE IF RLe(ltv, N(80)) THEN [color |-> "#C17B42", level |-> "AGGRESSIVE"]
    ELSE [color |-> "#DC3545", level |-> "HIGH_RISK"]

\* what calculateWithDerivedValue returns, and the receiver's fields after it,
\* given the call c of calculate() it made on the instance `computed`
DerivedResult(d, after, cache, writes, c) ==
    [deal |-> after, cache |-> cache, writes |-> writes,
     result |-> [calculations |-> c.result.metrics, isDerived |-> TRUE,
                 derivedPropertyValue |-> c.computed.propertyValue,
                 originalPropertyValue |-> d.propertyValue]]

\* the call of calculate() on a new instance
OnNew(instance) == [computed |-> instance, result |-> CalculateCall(NULL, 0, instance).result]

\* CalculateWithDerivedValue computing on the receiver instead of a temporary instance
CalculateWithDerivedValueInPlace(d, cache, writes, derivedPropertyValue) ==
    DerivedResult(d, [d EXCEPT !.propertyValue = derivedPropertyValue], cache, writes,
                  OnNew([d EXCEPT !.propertyValue = derivedPropertyValue]))

\* calculateWithDerivedValue(derivedPropertyValue): the metrics of a temporary
\* instance built from the receiver's other five inputs; deal, cache and writes
\* are the receiver's fields after the call
CalculateWithDerivedValue(d, cache, writes, derivedPropertyValue) ==
    DerivedResult(d, d, cache, writes,
                  OnNew(DealModel(derivedPropertyValue, d.annualNOI, d.loanAmount,
                                  d.interestRate, d.amortizationYears, d.sofrRate)))

\* calculateRequiredPropertyValue(targetLTV)
CalculateRequiredPropertyValue(d, targetLTV) ==
    IF RLe(targetLTV, N(0)) \/ RGt(targetLTV, N(100)) THEN NULL
    ELSE LET requiredValue == RDiv(d.loanAmount, RDiv(targetLTV, N(100)))
             impliedCapRate == RMul(RDiv(d.annualNOI, requiredValue), N(100))
         IN  [requiredPropertyValue |-> MathRound(requiredValue),
              targetLTV |-> targetLTV,
              impliedCapRate |-> ToFixed(impliedCapRate, 2),
              loanAmount |-> d.loanAmount, annualNOI |-> d.annualNOI]

\* calculateRequiredLoanAmount(targetLTV)
CalculateRequiredLoanAmount(d, targetLTV) ==
    IF RLe(targetLTV, N(0)) \/ RGt(targetLTV, N(100)) THEN NULL
    ELSE LET requiredLoanAmount == RMul(d.propertyValue, RDiv(targetLTV, N(100)))
         IN  [requiredLoanAmount |-> MathRound(requiredLoanAmount),
              targetLTV |-> targetLTV, propertyValue |-> d.propertyValue,
              currentLoanAmount |-> d.loanAmount,
              difference |-> MathRound(RSub(requiredLoanAmount, d.loanAmount))]

\* one entry of scenarioAnalysis(): the scenario at cap rate `rate`
Scenario(d, label, rate) ==
    LET scenarioValue == RDiv(d.annualNOI, RDiv(rate, N(100)))
        scenarioLTV == RMul(RDiv(d.loanAmount, scenarioValue), N(100))
    IN  [label |-> label, capRate |-> rate,
         propertyValue |-> MathRound(scenarioValue),
         impliedLTV |-> ToFixed(scenarioLTV, 1),
         variance |-> MathRound(RSub(scenarioValue, d.propertyValue)),
         variancePercent |->
             ToFixed(RMul(RDiv(RSub(scenarioValue, d.propertyValue), d.propertyValue), N(100)), 1)]

\* scenarioAnalysis(capRateRange)
ScenarioAnalysis(d, capRateRange) ==
    LET s1 == PushIf(<<>>, RGt(capRateRange.minRate, N(0)),
                     Scenario(d, "Conservative", capRateRange.minRate))
        s2 == PushIf(s1, RGt(capRateRange.avgRate, N(0)),
                     Scenario(d, "Average", capRateRange.avgRate))
        s3 == PushIf(s2, RGt(capRateRange.maxRate, N(0)),
                     Scenario(d, "Aggressive", capRateRange.maxRate))
    IN  s3

\* getMarketValidationSummary(marketData, validationResults), given the metrics
\* object c that its call of calculate() returned; validation is the value of
\* validationResults.validation.validation, or NULL when there is none
MarketValidationSummary(d, c, marketData, validation) ==
    LET dealCapRate == RMul(RDiv(d.annualNOI, d.propertyValue), N(100))
        variance == RSub(dealCapRate, marketData.avgRate)
        position ==
            IF RLt(dealCapRate, marketData.minRate) THEN "BELOW_MARKET"
            ELSE IF RGt(dealCapRate, marketData.maxRate) THEN "ABOVE_MARKET"
            ELSE "WITHIN_MARKET"
        level ==
            IF validation = "none" THEN "UNKNOWN"
            ELSE IF validation = "OVERVALUED" THEN "HIGH"
            ELSE IF validation = "UNDERVALUED" THEN "LOW"
            ELSE IF validation = "WITHIN_RANGE" THEN "MODERATE"
            ELSE "REVIEW"
    IN  [dealMetrics |-> c,
         marketComparison |->
             [dealCapRate |-> dealCapRate, marketAvgRate |-> marketData.avgRate,
              variance |-> ToFixed(variance, 2), position |-> position],
         riskAssessment |-> [level |-> level]]

-----------------------------------------------------------------------------
(* JavaScript strings *)
(* A string is the sequence of its characters.  undefined, the value of a   *)
(* column that a line of the file does not have, is a sequence that is no   *)
(* string: its one element is not a character.                              *)

UNDEFINED == <<"undefined">>

DigitChars == <<"0", "1", "2", "3", "4", "5", "6", "7", "8", "9">>

UpperChars ==
    <<"A", "B", "C", "D", "E", "F", "G", "H", "I", "J", "K", "L", "M",
      "N", "O", "P", "Q", "R", "S", "T", "U", "V", "W", "X", "Y", "Z">>

LowerChars ==
    <<"a", "b", "c", "d", "e", "f", "g", "h", "i", "j", "k", "l", "m",
      "n", "o", "p", "q", "r", "s", "t", "u", "v", "w", "x", "y", "z">>

\* the characters of the model in the order of their UTF-16 code units
CharOrder ==
    <<" ", "%", "+", ",", "-", ".">> \o DigitChars \o UpperChars \o <<"_">> \o LowerChars

Range(f) == {f[i] : i \in DOMAIN f}

IsDigit(c) == c \in Range(DigitChars)

IsLetter(c) == c \in Range(UpperChars) \cup Range(LowerChars)

IsSpace(c) == c \in {" ", "\n"}

PositionIn(chars, c) == CHOOSE i \in DOMAIN chars : chars[i] = c

DigitValue(c) == PositionIn(DigitChars, c) - 1

CharCode(c) == PositionIn(CharOrder, c)

ToLowerChar(c) == IF c \in Range(UpperChars) THEN LowerChars[PositionIn(UpperChars, c)] ELSE c

ToLowerCase(s) == [i \in DOMAIN s |-> ToLowerChar(s[i])]

\* the first position from i on that holds no space
RECURSIVE SkipSpaces(_, _)
SkipSpaces(s, i) == IF i <= Len(s) /\ IsSpace(s[i]) THEN SkipSpaces(s, i + 1) ELSE i

\* the last position down from j that holds no space
RECURSIVE SkipSpacesBack(_, _)
SkipSpacesBack(s, j) == IF j >= 1 /\ IsSpace(s[j]) THEN SkipSpacesBack(s, j - 1) ELSE j

\* s.trim()
Trim(s) == SubSeq(s, SkipSpaces(s, 1), SkipSpacesBack(s, Len(s)))

\* the first position from i on that holds no digit
RECURSIVE DigitsEnd(_, _)
DigitsEnd(s, i) == IF i <= Len(s) /\ IsDigit(s[i]) THEN DigitsEnd(s, i + 1) ELSE i

\* the number written by the digits s[i] .. s[j-1]
RECURSIVE DigitsValue(_, _, _)
DigitsValue(s, i, j) ==
    IF j <= i THEN 0 ELSE 10 * DigitsValue(s, i, j - 1) + DigitValue(s[j - 1])

SignAt(s, i) == IF i <= Len(s) /\ s[i] = "-" THEN -1 ELSE 1

AfterSign(s, i) == IF i <= Len(s) /\ s[i] \in {"+", "-"} THEN i + 1 ELSE i

\* the first position past the fraction that may follow the digits ending at j
FractionEnd(s, j) == IF j <= Len(s) /\ s[j] = "." THEN DigitsEnd(s, j + 1) ELSE j

\* the position of the first c in s from i on, Len(s) + 1 when there is none
RECURSIVE IndexOf(_, _, _)
IndexOf(s, c, i) == IF i > Len(s) \/ s[i] = c THEN i ELSE IndexOf(s, c, i + 1)

StartsWith(s, prefix) == Len(s) >= Len(prefix) /\ SubSeq(s, 1, Len(prefix)) = prefix

\* a < b in the order of Array.prototype.sort() without a comparator
RECURSIVE StringLess(_, _)
StringLess(a, b) ==
    IF b = <<>> THEN FALSE
    ELSE IF a = <<>> THEN TRUE
    ELSE IF Head(a) # Head(b) THEN CharCode(Head(a)) < CharCode(Head(b))
    ELSE StringLess(Tail(a), Tail(b))

\* the integer with sign `sign` written by the digits s[i] .. s[j-1]
IntegerAt(s, sign, i, j) == IF j = i THEN NaN ELSE N(sign * DigitsValue(s, i, j))

SignedIntegerAt(s, i) ==
    IntegerAt(s, SignAt(s, i), AfterSign(s, i), DigitsEnd(s, AfterSign(s, i)))

\* parseInt(s): the integer that the longest prefix of s writes, after
\* leading spaces and a sign; NaN when there is no digit there
ParseInt(s) == IF s = UNDEFINED THEN NaN ELSE SignedIntegerAt(s, SkipSpaces(s, 1))

\* the decimal with integer digits s[i] .. s[j-1] and, when k > j, the point
\* s[j] and the fraction digits s[j+1] .. s[k-1]
DecimalAt(s, sign, i, j, k) ==
    IF j = i /\ k <= j + 1 THEN NaN
    ELSE IF k = j THEN N(sign * DigitsValue(s, i, j))
    ELSE Rat(sign * (DigitsValue(s, i, j) * Pow10(k - j - 1) + DigitsValue(s, j + 1, k)),
             Pow10(k - j - 1))

DecimalFrom(s, sign, i, j) == DecimalAt(s, sign, i, j, FractionEnd(s, j))

SignedDecimalAt(s, i) ==
    DecimalFrom(s, SignAt(s, i), AfterSign(s, i), DigitsEnd(s, AfterSign(s, i)))

\* parseFloat(s): the decimal that the longest prefix of s writes, after
\* leading spaces and a sign; NaN when there is no digit there (exponents
\* and the word Infinity are not written in the strings of the model)
ParseFloat(s) == IF s = UNDEFINED THEN NaN ELSE SignedDecimalAt(s, SkipSpaces(s, 1))

\* the first position past the decimal that starts at i
DecimalEnd(s, i) == FractionEnd(s, DigitsEnd(s, AfterSign(s, i)))

\* Number(s) of a trimmed string t: 0 when it is empty, the decimal it writes
\* when it writes nothing else, NaN otherwise
NumberOfTrimmed(t) ==
    IF t = <<>> THEN N(0)
    ELSE IF DecimalEnd(t, 1) = Len(t) + 1 THEN SignedDecimalAt(t, 1)
    ELSE NaN

\* Number(s)
ToNumber(s) == IF s = UNDEFINED THEN NaN ELSE NumberOfTrimmed(Trim(s))

-----------------------------------------------------------------------------
(* DataService *)
(* A raw row is a record of the columns Sector, Market, H1_Low, H1_High,    *)
(* H2_Low, H2_High, Report_Year and Report_Half, each a string or undefined *)
(* (the columns Subsector and Region, which no method reads, are left out). *)
(* An array that a field holds is wrapped as [rows |-> <<...>>], so that the *)
(* field can be compared with NULL.                                          *)

\* num >= 1 && num <= 15 with both ends open
InCapRateRangeOpen(num) == ~IsNaN(num) /\ RGt(num, N(1)) /\ RLt(num, N(15))

\* !isNaN(num) && num >= 1 && num <= 15
InCapRateRange(num) == ~IsNaN(num) /\ RGe(num, N(1)) /\ RLe(num, N(15))

\* isValidCapRate(value)
IsValidCapRate(value) == InCapRateRange(ParseFloat(value))

\* !s for a string or undefined
NoString(s) == s = UNDEFINED \/ s = <<>>

\* some pattern of invalidPatterns matches the trimmed market name
MatchesInvalidPattern(trimmed) ==
    \/ ToLowerCase(trimmed) = <<"m", "a", "r", "k", "e", "t">>
    \/ StartsWith(ToLowerCase(trimmed),
                  <<"l", "o", "o", "k", "i", "n", "g", " ", "f", "o", "r", "w", "a", "r", "d">>)
    \/ StartsWith(ToLowerCase(trimmed), <<"f", "i", "g", "u", "r", "e">>)
    \/ StartsWith(ToLowerCase(trimmed), <<"a", "f", "t", "e", "r">>)
    \/ StartsWith(ToLowerCase(trimmed),
                  <<"b", "u", "t", " ", "f", "o", "r", "t", "u", "n", "e">>)
    \/ ToLowerCase(trimmed) = <<"t", "h", "e">>
    \/ Len(trimmed) = 4 /\ \A i \in DOMAIN trimmed : IsDigit(trimmed[i])
    \/ /\ Len(trimmed) >= 2
       /\ trimmed[Len(trimmed)] = "%"
       /\ \A i \in 1..(Len(trimmed) - 1) : IsDigit(trimmed[i])
    \/ Len(trimmed) >= 1 /\ ~IsLetter(trimmed[1])
    \/ trimmed = <<>>

\* the checks of isValidMarket on the trimmed name
ValidTrimmedMarket(trimmed) ==
    /\ ~MatchesInvalidPattern(trimmed)
    /\ \E i \in DOMAIN trimmed : IsLetter(trimmed[i])
    /\ Len(trimmed) <= 50

\* isValidMarket(market)
IsValidMarket(market) ==
    IF NoString(market) \/ Len(market) < 3 THEN FALSE ELSE ValidTrimmedMarket(Trim(market))

\* the mean of the bounds that are numbers, with a bound outside the cap rate
\* range taken as missing
AverageOfValid(lowNum, highNum) ==
    IF ~InCapRateRange(lowNum) /\ ~InCapRateRange(highNum) THEN NULL
    ELSE IF ~InCapRateRange(lowNum) THEN highNum
    ELSE IF ~InCapRateRange(highNum) THEN lowNum
    ELSE RDiv(RAdd(lowNum, highNum), N(2))

\* the value calculateAverage returns for the parsed bounds
Average(lowNum, highNum) ==
    IF IsNaN(lowNum) /\ IsNaN(highNum) THEN NULL
    ELSE IF IsNaN(lowNum) THEN highNum
    ELSE IF IsNaN(highNum) THEN lowNum
    ELSE RDiv(RAdd(lowNum, highNum), N(2))

\* calculateAverage(low, high)
CalculateAverage(low, high) == Average(ParseFloat(low), ParseFloat(high))

\* the year check of processData on the parsed year
ValidYear(year) == ~(IsNaN(year) \/ RLt(year, N(2020)) \/ RGt(year, N(2025)))

\* the half check of processData on the parsed half
ValidHalf(half) == ~(IsNaN(half) \/ (half # N(1) /\ half # N(2)))

\* the sector check of processData
ValidSector(sector) == ~(NoString(sector) \/ Len(sector) < 3)

HasValidCapRate(row) ==
    \/ IsValidCapRate(row.H1_Low)
    \/ IsValidCapRate(row.H1_High)
    \/ IsValidCapRate(row.H2_Low)
    \/ IsValidCapRate(row.H2_High)

\* Admitted without the check of the sector
AdmittedAnySector(row) ==
    /\ ValidYear(ParseInt(row.Report_Year))
    /\ ValidHalf(ParseInt(row.Report_Half))
    /\ HasValidCapRate(row)

\* the predicate of the filter of processData
Admitted(row) ==
    /\ ValidYear(ParseInt(row.Report_Year))
    /\ ValidHalf(ParseInt(row.Report_Half))
    /\ ValidSector(row.Sector)
    /\ HasValidCapRate(row)

\* the record processData makes of an admitted row
ProcessedRow(row) ==
    [Sector |-> row.Sector, Market |-> row.Market,
     H1_Low |-> row.H1_Low, H1_High |-> row.H1_High,
     H2_Low |-> row.H2_Low, H2_High |-> row.H2_High,
     Report_Year |-> row.Report_Year, Report_Half |-> row.Report_Half,
     h1_avg |-> CalculateAverage(row.H1_Low, row.H1_High),
     h2_avg |-> CalculateAverage(row.H2_Low, row.H2_High),
     period_key |-> row.Report_Year \o <<"_">> \o row.Report_Half,
     is_valid_market |-> IsValidMarket(row.Market)]

\* array.map(ProcessedRow)
ProcessedRows(validData) == [i \in DOMAIN validData |-> ProcessedRow(validData[i])]

\* processData(rawData)
ProcessData(rawData) == ProcessedRows(SelectSeq(rawData, Admitted))

\* the elements of seq without repetition, in the order of their first occurrence
RECURSIVE Unique(_)
Unique(seq) ==
    IF seq = <<>> THEN <<>>
    ELSE <<Head(seq)>> \o SelectSeq(Unique(Tail(seq)), LAMBDA x : x # Head(seq))

\* sorted, a sorted array of strings, with x put before the first greater string
RECURSIVE InsertString(_, _)
InsertString(sorted, x) ==
    IF sorted = <<>> THEN <<x>>
    ELSE IF StringLess(x, Head(sorted)) THEN <<x>> \o sorted
    ELSE <<Head(sorted)>> \o InsertString(Tail(sorted), x)

\* array.sort() of an array of strings
RECURSIVE SortStrings(_)
SortStrings(seq) ==
    IF seq = <<>> THEN <<>>
    ELSE InsertString(SortStrings(SubSeq(seq, 1, Len(seq) - 1)), seq[Len(seq)])

\* the rows of a field that holds an array or null
RowsOf(field) == IF field = NULL THEN <<>> ELSE field.rows

Column(rows, name) == [i \in DOMAIN rows |-> rows[i][name]]

\* getSectors()
GetSectors(processed) ==
    SortStrings(SelectSeq(Unique(Column(RowsOf(processed), "Sector")),
                          LAMBDA x : ~NoString(x)))

\* getMarkets()
GetMarkets(processed) ==
    SortStrings(SelectSeq(
        Unique(Column(SelectSeq(RowsOf(processed), LAMBDA row : IsValidMarket(row.Market)),
                      "Market")),
        LAMBDA x : ~NoString(x)))

\* a.split('_')[0] as a number
YearOfKey(key) == ToNumber(SubSeq(key, 1, IndexOf(key, "_", 1) - 1))

\* the second of the parts of a.split('_') that starts at position i
SecondPart(key, i) ==
    IF i > Len(key) + 1 THEN UNDEFINED ELSE SubSeq(key, i, IndexOf(key, "_", i) - 1)

\* a.split('_')[1] as a number
HalfOfKey(key) == ToNumber(SecondPart(key, IndexOf(key, "_", 1) + 1))

\* the value of the comparator of getPeriods for the numbers of two keys
ComparePeriodParts(yearA, halfA, yearB, halfB) ==
    IF yearA # yearB \/ IsNaN(yearA) THEN RSub(yearA, yearB) ELSE RSub(halfA, halfB)

ComparePeriods(a, b) ==
    ComparePeriodParts(YearOfKey(a), HalfOfKey(a), YearOfKey(b), HalfOfKey(b))

\* sorted, a sorted array of period keys, with x put before the first key
\* that the comparator places after it
RECURSIVE InsertPeriod(_, _)
InsertPeriod(sorted, x) ==
    IF sorted = <<>> THEN <<x>>
    ELSE IF RLt(ComparePeriods(x, Head(sorted)), N(0)) THEN <<x>> \o sorted
    ELSE <<Head(sorted)>> \o InsertPeriod(Tail(sorted), x)

\* periods.sort(comparator), a stable sort
RECURSIVE SortPeriods(_)
SortPeriods(seq) ==
    IF seq = <<>> THEN <<>>
    ELSE InsertPeriod(SortPeriods(SubSeq(seq, 1, Len(seq) - 1)), seq[Len(seq)])

\* getPeriods()
GetPeriods(processed) == SortPeriods(Unique(Column(RowsOf(processed), "period_key")))

\* the criteria object of filterData; UNDEFINED stands for a criterion that
\* is null or not given
Criteria(sector, market, period, validMarketOnly) ==
    [sector |-> sector, market |-> market, period |-> period,
     validMarketOnly |-> validMarketOnly]

\* the predicate of the filter of filterData
Passes(row, criteria) ==
    /\ ~(~NoString(criteria.sector) /\ row.Sector # criteria.sector)
    /\ ~(~NoString(criteria.market) /\ row.Market # criteria.market)
    /\ ~(~NoString(criteria.period) /\ row.period_key # criteria.period)
    /\ ~(criteria.validMarketOnly /\ ~row.is_valid_market)

\* filterData(criteria)
FilterData(processed, criteria) ==
    SelectSeq(RowsOf(processed), LAMBDA row : Passes(row, criteria))

\* a value that is neither null nor 0 nor NaN
Truthy(x) == IF x = NULL THEN FALSE ELSE ~IsNaN(x) /\ x # N(0)

\* row.h1_avg || row.h2_avg
RateOf(row) == IF Truthy(row.h1_avg) THEN row.h1_avg ELSE row.h2_avg

\* rows.map(row => row.h1_avg || row.h2_avg).filter(rate => rate !== null)
RatesOf(rows) ==
    SelectSeq([i \in DOMAIN rows |-> RateOf(rows[i])], LAMBDA rate : rate # NULL)

\* rates.reduce((sum, rate) => sum + rate, 0)
RECURSIVE SumOf(_)
SumOf(rates) ==
    IF rates = <<>> THEN N(0)
    ELSE RAdd(SumOf(SubSeq(rates, 1, Len(rates) - 1)), rates[Len(rates)])

\* the sum of the rates divided by their number
Mean(rates) == RDiv(SumOf(rates), N(Len(rates)))

\* Math.min(...rates)
RECURSIVE MinOf(_)
MinOf(rates) ==
    IF Len(rates) = 1 THEN rates[1]
    ELSE IF RLt(rates[Len(rates)], MinOf(SubSeq(rates, 1, Len(rates) - 1)))
         THEN rates[Len(rates)]
         ELSE MinOf(SubSeq(rates, 1, Len(rates) - 1))

\* Math.max(...rates)
RECURSIVE MaxOf(_)
MaxOf(rates) ==
    IF Len(rates) = 1 THEN rates[1]
    ELSE IF RGt(rates[Len(rates)], MaxOf(SubSeq(rates, 1, Len(rates) - 1)))
         THEN rates[Len(rates)]
         ELSE MaxOf(SubSeq(rates, 1, Len(rates) - 1))

\* the elements of seq that are not null
NotNull(seq) == SelectSeq(seq, LAMBDA x : x # NULL)

\* the entry that getTimeSeriesData pushes for a period with the rows
\* periodData, or null when it pushes none
SeriesEntry(period, periodData, avgRates) ==
    IF Len(periodData) > 0 /\ Len(avgRates) > 0
    THEN [period |-> period, avgRate |-> ToFixed(Mean(avgRates), 2),
          count |-> Len(periodData)]
    ELSE NULL

PeriodRows(rows, period) == SelectSeq(rows, LAMBDA row : row.period_key = period)

SeriesEntryOf(filtered, period) ==
    SeriesEntry(period, PeriodRows(filtered, period), RatesOf(PeriodRows(filtered, period)))

TimeSeries(filtered, periods) ==
    NotNull([i \in DOMAIN periods |-> SeriesEntryOf(filtered, periods[i])])

\* getTimeSeriesData(sector, market)
GetTimeSeriesData(processed, sector, market) ==
    TimeSeries(FilterData(processed, Criteria(sector, market, UNDEFINED, TRUE)),
               GetPeriods(processed))

\* rates.length > 0 ? mean : 0
MeanOrZero(rates) == IF Len(rates) > 0 THEN Mean(rates) ELSE N(0)

\* the item of getSectorComparison for a sector with the rows sectorData
SectorItem(sector, sectorData) ==
    [sector |-> sector, avgRate |-> ToFixed(MeanOrZero(RatesOf(sectorData)), 2),
     count |-> Len(sectorData)]

SectorItems(processed, sectors) ==
    [i \in DOMAIN sectors |->
        SectorItem(sectors[i],
                   FilterData(processed, Criteria(sectors[i], UNDEFINED, UNDEFINED, TRUE)))]

\* getSectorComparison()
GetSectorComparison(processed) ==
    SelectSeq(SectorItems(processed, GetSectors(processed)),
              LAMBDA item : RGt(item.avgRate, N(0)))

\* the item of getMarketRanking for a market with the rows marketRows
MarketItem(market, marketRows) ==
    [market |-> market, avgRate |-> ToFixed(MeanOrZero(RatesOf(marketRows)), 2),
     count |-> Len(marketRows)]

MarketItems(processed, markets) ==
    [i \in DOMAIN markets |->
        MarketItem(markets[i],
                   FilterData(processed, Criteria(UNDEFINED, markets[i], UNDEFINED, TRUE)))]

\* sorted, an array sorted by falling avgRate, with x put before the first
\* item of a lower avgRate
RECURSIVE InsertRanked(_, _)
InsertRanked(sorted, x) ==
    IF sorted = <<>> THEN <<x>>
    ELSE IF RLt(RSub(Head(sorted).avgRate, x.avgRate), N(0)) THEN <<x>> \o sorted
    ELSE <<Head(sorted)>> \o InsertRanked(Tail(sorted), x)

\* marketData.sort((a, b) => b.avgRate - a.avgRate), a stable sort
RECURSIVE SortRanked(_)
SortRanked(seq) ==
    IF seq = <<>> THEN <<>>
    ELSE InsertRanked(SortRanked(SubSeq(seq, 1, Len(seq) - 1)), seq[Len(seq)])

\* array.slice(0, limit)
Slice(seq, limit) == SubSeq(seq, 1, IF limit < Len(seq) THEN limit ELSE Len(seq))

\* getMarketRanking(limit) without its sort
GetMarketRankingUnsorted(processed, limit) ==
    Slice(SelectSeq(MarketItems(processed, GetMarkets(processed)),
                    LAMBDA item : RGt(item.avgRate, N(0))),
          limit)

\* getMarketRanking(limit)
GetMarketRanking(processed, limit) ==
    Slice(SortRanked(SelectSeq(MarketItems(processed, GetMarkets(processed)),
                               LAMBDA item : RGt(item.avgRate, N(0)))),
          limit)

\* the value getMultiSectorTimeSeriesData pushes for the rows of a sector in
\* a period
SeriesCell(sectorPeriodData) ==
    IF Len(sectorPeriodData) > 0 /\ Len(RatesOf(sectorPeriodData)) > 0
    THEN ToFixed(Mean(RatesOf(sectorPeriodData)), 2)
    ELSE NULL

SectorPeriodRows(filtered, period, sector) ==
    SelectSeq(filtered, LAMBDA row : row.period_key = period /\ row.Sector = sector)

\* the result object: data maps each sector to its series
MultiSeries(filtered, periods, sectors) ==
    [periods |-> periods, sectors |-> sectors,
     data |-> [sector \in Range(sectors) |->
                  [i \in DOMAIN periods |->
                      SeriesCell(SectorPeriodRows(filtered, periods[i], sector))]]]

\* getMultiSectorTimeSeriesData(filterSector, filterMarket)
GetMultiSectorTimeSeriesData(processed, filterSector, filterMarket) ==
    MultiSeries(FilterData(processed, Criteria(filterSector, filterMarket, UNDEFINED, TRUE)),
                GetPeriods(processed),
                IF NoString(filterSector) THEN GetSectors(processed) ELSE <<filterSector>>)

\* the greatest m in lo..hi that is 0 or has (2m - 1)^2 <= r
RECURSIVE RootSearch(_, _, _)
RootSearch(r, lo, hi) ==
    IF lo >= hi THEN lo
    ELSE IF (2 * ((lo + hi + 1) \div 2) - 1) * (2 * ((lo + hi + 1) \div 2) - 1) <= r
         THEN RootSearch(r, (lo + hi + 1) \div 2, hi)
         ELSE RootSearch(r, lo, ((lo + hi + 1) \div 2) - 1)

\* Math.sqrt(v).toFixed(2) as a number, for a finite v >= 0 with a root below
\* 200: the m / 100 with (m - 1/2)^2 <= 10000 v < (m + 1/2)^2
SqrtToFixed2(v) ==
    IF v.d = 0 \/ v.n < 0 THEN NaN
    ELSE Rat(RootSearch((40000 * v.n) \div v.d, 0, 20000), 100)

SquaredDiffs(rates, mean) == [i \in DOMAIN rates |-> Square(RSub(rates[i], mean))]

\* the variance calculateVolatility takes the root of
Variance(rates) == RDiv(SumOf(SquaredDiffs(rates, Mean(rates))), N(Len(rates)))

\* DataService.calculateVolatility(rates), and the text in which the
\* controller shows the value of its own calculateVolatility(rates)
CalculateVolatility(rates) == IF Len(rates) < 2 THEN N(0) ELSE SqrtToFixed2(Variance(rates))

\* [...allRates].sort((a, b) => a - b)
RECURSIVE InsertRate(_, _)
InsertRate(sorted, x) ==
    IF sorted = <<>> THEN <<x>>
    ELSE IF RLt(x, Head(sorted)) THEN <<x>> \o sorted
    ELSE <<Head(sorted)>> \o InsertRate(Tail(sorted), x)

RECURSIVE SortRates(_)
SortRates(rates) ==
    IF rates = <<>> THEN <<>>
    ELSE InsertRate(SortRates(SubSeq(rates, 1, Len(rates) - 1)), rates[Len(rates)])

\* the statistics of the rates allRates, sorted being their sorted copy
AdvancedStatistics(allRates, sorted) ==
    [mean |-> ToFixed(Mean(allRates), 2),
     median |-> ToFixed(sorted[(Len(sorted) \div 2) + 1], 2),
     q1 |-> ToFixed(sorted[(Len(sorted) \div 4) + 1], 2),
     q3 |-> ToFixed(sorted[((3 * Len(sorted)) \div 4) + 1], 2),
     min |-> ToFixed(sorted[1], 2),
     max |-> ToFixed(sorted[Len(sorted)], 2),
     stdDev |-> CalculateVolatility(allRates),
     count |-> Len(allRates)]

AdvancedStatisticsOf(allRates) ==
    IF Len(allRates) = 0 THEN NULL ELSE AdvancedStatistics(allRates, SortRates(allRates))

\* getAdvancedStatistics()
GetAdvancedStatistics(processed) ==
    AdvancedStatisticsOf(RatesOf(FilterData(processed, Criteria(UNDEFINED, UNDEFINED, UNDEFINED, TRUE))))

\* the entry of analysis.sectors for the rates of a sector
SectorAnalysis(rates) ==
    [avgRate |-> ToFixed(Mean(rates), 2), minRate |-> ToFixed(MinOf(rates), 2),
     maxRate |-> ToFixed(MaxOf(rates), 2), count |-> Len(rates),
     spread |-> ToFixed(RSub(MaxOf(rates), MinOf(rates)), 2)]

SectorRows(rows, sector) == SelectSeq(rows, LAMBDA row : row.Sector = sector)

\* the sectors that get an entry in analysis.sectors
AnalysedSectors(marketData, sectors) ==
    {sector \in Range(sectors) : Len(RatesOf(SectorRows(marketData, sector))) > 0}

\* the entry that getMarketAnalysis pushes on analysis.trends for a period,
\* or null when it pushes none
TrendEntry(period, rates) ==
    IF Len(rates) > 0
    THEN [period |-> period, avgRate |-> ToFixed(Mean(rates), 2), count |-> Len(rates)]
    ELSE NULL

\* analysis.summary for the rates of all rows of the market
Summary(allRates) ==
    IF Len(allRates) > 0
    THEN [overallAvg |-> ToFixed(Mean(allRates), 2),
          overallMin |-> ToFixed(MinOf(allRates), 2),
          overallMax |-> ToFixed(MaxOf(allRates), 2),
          volatility |-> CalculateVolatility(allRates)]
    ELSE [empty |-> TRUE]

\* the analysis object for the rows marketData of the market
Analysis(market, marketData, periods, sectors) ==
    [market |-> market, totalRecords |-> Len(marketData),
     sectors |-> [sector \in AnalysedSectors(marketData, sectors) |->
                     SectorAnalysis(RatesOf(SectorRows(marketData, sector)))],
     trends |-> NotNull([i \in DOMAIN periods |->
                           TrendEntry(periods[i], RatesOf(PeriodRows(marketData, periods[i])))]),
     summary |-> Summary(RatesOf(marketData))]

AnalysisOf(processed, market, marketData) ==
    IF Len(marketData) = 0 THEN NULL
    ELSE Analysis(market, marketData, GetPeriods(processed), GetSectors(processed))

\* getMarketAnalysis(market)
GetMarketAnalysis(processed, market) ==
    IF NoString(market) THEN NULL
    ELSE AnalysisOf(processed, market,
                    FilterData(processed, Criteria(UNDEFINED, market, UNDEFINED, TRUE)))

-----------------------------------------------------------------------------
(* MarketValidationService *)

\* !x for a number x: true of 0 and NaN
Falsy(x) == IsNaN(x) \/ x = N(0)

\* calculateImpliedLTV(loanAmount, derivedPropertyValue)
CalculateImpliedLTV(loanAmount, derivedPropertyValue) ==
    IF Falsy(loanAmount) \/ Falsy(derivedPropertyValue) \/ RLe(derivedPropertyValue, N(0))
    THEN NULL
    ELSE LET impliedLTV == RMul(RDiv(loanAmount, derivedPropertyValue), N(100))
             riskLevel ==
                 IF RGt(impliedLTV, N(85)) THEN "HIGH_RISK"
                 ELSE IF RGt(impliedLTV, N(80)) THEN "AGGRESSIVE"
                 ELSE IF RGt(impliedLTV, N(75)) THEN "STANDARD"
                 ELSE "CONSERVATIVE"
             message ==
                 IF RGt(impliedLTV, N(85)) THEN "High LTV ratio - increased credit risk"
                 ELSE IF RGt(impliedLTV, N(80)) THEN "Aggressive LTV ratio"
                 ELSE IF RGt(impliedLTV, N(75)) THEN "Standard LTV ratio"
                 ELSE "Conservative LTV ratio"
         IN  [impliedLTV |-> ToFixed(impliedLTV, 1), riskLevel |-> riskLevel,
              message |-> message, loanAmount |-> loanAmount,
              derivedPropertyValue |-> derivedPropertyValue]

\* the h1 and h2 averages of the rows that are neither null nor 0, in order
RECURSIVE BothRates(_)
BothRates(rows) ==
    IF rows = <<>> THEN <<>>
    ELSE (IF Truthy(Head(rows).h1_avg) THEN <<Head(rows).h1_avg>> ELSE <<>>)
         \o (IF Truthy(Head(rows).h2_avg) THEN <<Head(rows).h2_avg>> ELSE <<>>)
         \o BothRates(Tail(rows))

\* the object getMarketCapRate returns for the rates of the filtered rows
MarketData(rates, sector, market, period) ==
    IF Len(rates) = 0 THEN NULL
    ELSE [avgRate |-> ToFixed(Mean(rates), 2), minRate |-> ToFixed(MinOf(rates), 2),
          maxRate |-> ToFixed(MaxOf(rates), 2), dataPoints |-> Len(rates),
          sector |-> sector, market |-> market, period |-> period]

\* getMarketCapRate(sector, market, period)
GetMarketCapRate(processed, sector, market, period) ==
    IF NoString(sector) \/ NoString(market) \/ NoString(period) THEN NULL
    ELSE MarketData(BothRates(FilterData(processed, Criteria(sector, market, period, TRUE))),
                    sector, market, period)

\* Classification with isValid computed from the distance to the average
ValidationByVariance(dealCapRate, marketData, variancePercent) ==
    [isValid |-> RLe(variancePercent, N(15)),
     validation |->
         IF RLt(dealCapRate, RMul(marketData.minRate, Dec(8, 10))) THEN "OVERVALUED"
         ELSE IF RGt(dealCapRate, RMul(marketData.maxRate, Dec(12, 10))) THEN "UNDERVALUED"
         ELSE IF RGt(variancePercent, N(15)) THEN "REVIEW_REQUIRED"
         ELSE "WITHIN_RANGE",
     dealCapRate |-> ToFixed(dealCapRate, 2),
     marketData |-> marketData,
     variancePercent |-> ToFixed(variancePercent, 1)]

\* the object validatePropertyValue returns when there is market data
Classification(dealCapRate, marketData, variancePercent) ==
    [isValid |-> /\ RGe(dealCapRate, RMul(marketData.minRate, Dec(8, 10)))
                 /\ RLe(dealCapRate, RMul(marketData.maxRate, Dec(12, 10))),
     validation |->
         IF RLt(dealCapRate, RMul(marketData.minRate, Dec(8, 10))) THEN "OVERVALUED"
         ELSE IF RGt(dealCapRate, RMul(marketData.maxRate, Dec(12, 10))) THEN "UNDERVALUED"
         ELSE IF RGt(variancePercent, N(15)) THEN "REVIEW_REQUIRED"
         ELSE "WITHIN_RANGE",
     dealCapRate |-> ToFixed(dealCapRate, 2),
     marketData |-> marketData,
     variancePercent |-> ToFixed(variancePercent, 1)]

\* Math.abs(x)
MathAbs(x) == [n |-> Abs(x.n), d |-> x.d]

\* variancePercent = Math.abs(dealCapRate - avg) / avg * 100
VariancePercent(dealCapRate, avgRate) ==
    RMul(RDiv(MathAbs(RSub(dealCapRate, avgRate)), avgRate), N(100))

Validated(dealCapRate, marketData) ==
    IF marketData = NULL
    THEN [isValid |-> FALSE, validation |-> "none", marketData |-> NULL]
    ELSE Classification(dealCapRate, marketData,
                        VariancePercent(dealCapRate, marketData.avgRate))

\* validatePropertyValue(propertyValue, annualNOI, sector, market, period)
ValidatePropertyValue(processed, propertyValue, annualNOI, sector, market, period) ==
    Validated(RMul(RDiv(annualNOI, propertyValue), N(100)),
              GetMarketCapRate(processed, sector, market, period))

\* derivePropertyValue(annualNOI, marketCapRate): the derived value
DerivePropertyValue(annualNOI, marketCapRate) ==
    IF Falsy(annualNOI) \/ Falsy(marketCapRate) \/ RLe(marketCapRate, N(0)) THEN NULL
    ELSE [derivedValue |-> MathRound(RDiv(annualNOI, RDiv(marketCapRate, N(100)))),
          marketCapRate |-> marketCapRate, annualNOI |-> annualNOI]

\* the results of performMarketValidation for the market data found
\* (propertyValue is NULL when none is given; the recommendations, texts
\* made of these results, are left out)
ValidationResults(processed, marketData, inputs, derived) ==
    IF marketData = NULL
    THEN [marketData |-> NULL, derivedValue |-> NULL, validation |-> NULL,
          impliedLTV |-> NULL, error |-> TRUE]
    ELSE IF Truthy(inputs.propertyValue)
    THEN [marketData |-> marketData, derivedValue |-> NULL,
          validation |-> ValidatePropertyValue(processed, inputs.propertyValue,
                                               inputs.annualNOI, inputs.sector,
                                               inputs.market, inputs.period),
          impliedLTV |-> CalculateImpliedLTV(inputs.loanAmount, inputs.propertyValue),
          error |-> FALSE]
    ELSE [marketData |-> marketData, derivedValue |-> derived, validation |-> NULL,
          impliedLTV |-> IF derived = NULL THEN NULL
                         ELSE CalculateImpliedLTV(inputs.loanAmount, derived.derivedValue),
          error |-> FALSE]

ValidationResultsOf(processed, marketData, inputs) ==
    ValidationResults(processed, marketData, inputs,
                      IF marketData = NULL THEN NULL
                      ELSE DerivePropertyValue(inputs.annualNOI, marketData.avgRate))

\* performMarketValidation(inputs)
PerformMarketValidation(processed, inputs) ==
    ValidationResultsOf(processed,
                        GetMarketCapRate(processed, inputs.sector, inputs.market,
                                         inputs.period),
                        inputs)

-----------------------------------------------------------------------------
(* DashboardController *)

\* the first or the last two elements of the sorted periods
\* the first period alone
FirstOne(seq) == SubSeq(seq, 1, IF Len(seq) < 1 THEN Len(seq) ELSE 1)

FirstTwo(seq) == SubSeq(seq, 1, IF Len(seq) < 2 THEN Len(seq) ELSE 2)

LastTwo(seq) == SubSeq(seq, IF Len(seq) < 2 THEN 1 ELSE Len(seq) - 1, Len(seq))

RowsIn(rows, periods) == SelectSeq(rows, LAMBDA row : row.period_key \in Range(periods))

\* the direction for the change of the average
Direction(change) ==
    IF RLt(MathAbs(change), Dec(1, 10)) THEN "Stable"
    ELSE IF RGt(change, N(0)) THEN "Rising"
    ELSE "Falling"

\* the trend for the rates of the recent and of the older periods
TrendOf(recentRates, olderRates) ==
    IF Len(recentRates) = 0 \/ Len(olderRates) = 0 THEN "No Trend Data"
    ELSE Direction(RSub(Mean(recentRates), Mean(olderRates)))

\* calculateMarketTrend(periods, validData)
\* (the strings are written without their leading arrow)
CalculateMarketTrend(periods, validData) ==
    IF Len(periods) < 2 THEN "Insufficient Data"
    ELSE TrendOf(BothRates(RowsIn(validData, LastTwo(SortPeriods(periods)))),
                 BothRates(RowsIn(validData, FirstTwo(SortPeriods(periods)))))

\* the years covered: the first parts of the period keys, without repetition, sorted
Years(periods) ==
    SortStrings(Unique([i \in DOMAIN periods |->
                           SubSeq(periods[i], 1, IndexOf(periods[i], "_", 1) - 1)]))

\* the text of the time range, as the pair of its first and last year
TimeRange(years) ==
    IF Len(years) > 1 THEN <<years[1], years[Len(years)]>>
    ELSE IF Len(years) = 1 /\ years[1] # <<>> THEN <<years[1]>>
    ELSE <<"N/A">>

\* the values updateStatistics shows for the rates allRates of the rows validData
Statistics(processed, validData, allRates) ==
    [totalRecords |-> Len(validData),
     totalSectors |-> Len(GetSectors(processed)),
     totalMarkets |-> Len(GetMarkets(processed)),
     timeRange |-> TimeRange(Years(GetPeriods(processed))),
     allRates |-> allRates,
     avgCapRate |-> ToFixed(MeanOrZero(allRates), 2),
     marketVolatility |-> CalculateVolatility(allRates),
     highestCapRate |-> IF Len(allRates) > 0 THEN ToFixed(MaxOf(allRates), 2) ELSE N(0),
     lowestCapRate |-> IF Len(allRates) > 0 THEN ToFixed(MinOf(allRates), 2) ELSE N(0),
     riskSpread |-> IF Len(allRates) > 0
                    THEN ToFixed(RSub(MaxOf(allRates), MinOf(allRates)), 2) ELSE N(0),
     trendDirection |-> CalculateMarketTrend(GetPeriods(processed), validData)]

StatisticsOf(processed, validData) == Statistics(processed, validData, BothRates(validData))

\* updateStatistics(): the texts it writes, NULL when it returns at once
UpdateStatistics(processed) ==
    IF processed = NULL THEN NULL
    ELSE StatisticsOf(processed, SelectSeq(processed.rows, HasValidCapRate))

\* parts.join(sep)
RECURSIVE Join(_, _)
Join(parts, sep) ==
    IF Len(parts) = 0 THEN <<>>
    ELSE IF Len(parts) = 1 THEN parts[1]
    ELSE Join(SubSeq(parts, 1, Len(parts) - 1), sep) \o <<sep>> \o parts[Len(parts)]

\* text.split(sep)
RECURSIVE Split(_, _)
Split(text, sep) ==
    IF IndexOf(text, sep, 1) > Len(text) THEN <<text>>
    ELSE <<SubSeq(text, 1, IndexOf(text, sep, 1) - 1)>>
         \o Split(SubSeq(text, IndexOf(text, sep, 1) + 1, Len(text)), sep)

\* the keys of a record of the file, in the order of its columns
Keys == <<"Sector", "Market", "H1_Low", "H1_High", "H2_Low", "H2_High",
          "Report_Year", "Report_Half">>

\* the characters of a key
KeyText(key) ==
    CASE key = "Sector" -> <<"S", "e", "c", "t", "o", "r">>
      [] key = "Market" -> <<"M", "a", "r", "k", "e", "t">>
      [] key = "H1_Low" -> <<"H", "1", "_", "L", "o", "w">>
      [] key = "H1_High" -> <<"H", "1", "_", "H", "i", "g", "h">>
      [] key = "H2_Low" -> <<"H", "2", "_", "L", "o", "w">>
      [] key = "H2_High" -> <<"H", "2", "_", "H", "i", "g", "h">>
      [] key = "Report_Year" -> <<"R", "e", "p", "o", "r", "t", "_", "Y", "e", "a", "r">>
      [] key = "Report_Half" -> <<"R", "e", "p", "o", "r", "t", "_", "H", "a", "l", "f">>

\* typeof value === 'string' && value.includes(',') ? `"${value}"` : value
Quoted(value) ==
    IF IndexOf(value, ",", 1) <= Len(value) THEN <<"\"">> \o value \o <<"\"">> ELSE value

\* the line convertToCSV writes for a row
CsvRow(row) == Join([i \in DOMAIN Keys |-> Quoted(row[Keys[i]])], ",")

\* convertToCSV(data), for records that hold the columns of the file
ConvertToCSV(rows) ==
    IF Len(rows) = 0 THEN <<>>
    ELSE Join(<<Join([i \in DOMAIN Keys |-> KeyText(Keys[i])], ",")>>
              \o [i \in DOMAIN rows |-> CsvRow(rows[i])], "\n")

\* the trimmed parts of a line between its commas
Cells(line) == [i \in DOMAIN Split(line, ",") |-> Trim(Split(line, ",")[i])]

\* row[header] = values[index] for each header: the value of the key in the row
CellOf(headers, values, key) ==
    IF \E i \in DOMAIN headers : headers[i] = KeyText(key)
    THEN IF (CHOOSE i \in DOMAIN headers : headers[i] = KeyText(key)) <= Len(values)
         THEN values[CHOOSE i \in DOMAIN headers : headers[i] = KeyText(key)]
         ELSE UNDEFINED
    ELSE UNDEFINED

\* the rows of the lines under the headers
ParsedRows(headers, lines) ==
    [i \in DOMAIN lines |->
        [key \in Range(Keys) |-> CellOf(headers, Cells(lines[i]), key)]]

\* parseCSV(csvText), for a text whose headers are columns of the file
ParseCSV(csvText) ==
    ParsedRows(Cells(Split(Trim(csvText), "\n")[1]),
               SubSeq(Split(Trim(csvText), "\n"), 2, Len(Split(Trim(csvText), "\n"))))

-----------------------------------------------------------------------------
(* DataProcessor: the merge of a batch of normalized records into the historical
   dataset, which the dashboard reads as its file *)

\* a rate field of a record as a number, NaN when the field holds none
RateField(value) == ParseFloat(value)

\* the key of a record: sector, market and period
RecordKey(record) ==
    <<record.Sector, record.Market, ParseInt(record.Report_Year), ParseInt(record.Report_Half)>>

\* the duplicate test with rates compared as numbers only: a missing rate equals nothing
IsDuplicateStrictRates(record, existing) ==
    /\ RecordKey(record) = RecordKey(existing)
    /\ REq(RateField(record.H1_Low), RateField(existing.H1_Low))
    /\ REq(RateField(record.H1_High), RateField(existing.H1_High))
    /\ REq(RateField(record.H2_Low), RateField(existing.H2_Low))
    /\ REq(RateField(record.H2_High), RateField(existing.H2_High))

\* a new record is a duplicate of an existing one: the same sector, market and period
\* and all four rate fields equal
IsDuplicate(record, existing) ==
    /\ RecordKey(record) = RecordKey(existing)
    /\ RateField(record.H1_Low) = RateField(existing.H1_Low)
    /\ RateField(record.H1_High) = RateField(existing.H1_High)
    /\ RateField(record.H2_Low) = RateField(existing.H2_Low)
    /\ RateField(record.H2_High) = RateField(existing.H2_High)

\* the dataset and the counts after one more record of the batch
MergeRecord(merged, record) ==
    IF \E i \in DOMAIN merged.dataset : IsDuplicate(record, merged.dataset[i])
    THEN [merged EXCEPT !.duplicateRecords = @ + 1]
    ELSE [merged EXCEPT !.dataset = Append(@, record), !.newRecords = @ + 1]

\* merge_with_existing_data(new_data): the updated dataset and the counts
RECURSIVE MergeWithExistingData(_, _)
MergeWithExistingData(dataset, batch) ==
    IF batch = <<>> THEN [dataset |-> dataset, newRecords |-> 0, duplicateRecords |-> 0]
    ELSE MergeRecord(MergeWithExistingData(dataset, SubSeq(batch, 1, Len(batch) - 1)),
                     batch[Len(batch)])

-----------------------------------------------------------------------------
(* CapRateDashboardApp and the deal calculator of the page *)

\* the six numbers DashboardController.calculateDeal reads from the form
ControllerInputs(inputs) ==
    [propertyValue |-> ParseFloat(inputs.propertyValue),
     annualNOI |-> ParseFloat(inputs.annualNOI),
     loanAmount |-> ParseFloat(inputs.loanAmount),
     interestRate |-> ParseFloat(inputs.interestRate),
     amortizationMonths |-> ParseFloat(inputs.amortizationMonths),
     sofrRate |-> ParseFloat(inputs.sofrRate)]

\* missingInputs of DashboardController.calculateDeal is not empty
HasMissingInputs(n) ==
    \E key \in DOMAIN n : IsNaN(n[key]) \/ RLe(n[key], N(0))

\* the deal DashboardController.calculateDeal makes of the numbers
ControllerDeal(n) ==
    DealModel(n.propertyValue, n.annualNOI, n.loanAmount, n.interestRate,
              RDiv(n.amortizationMonths, N(12)), n.sofrRate)

\* parseFloat(value) || 0
ParseFloatOrZero(value) == IF Truthy(ParseFloat(value)) THEN ParseFloat(value) ELSE N(0)

\* the deal CapRateDashboardApp.calculateDeal makes of the form: the page has no
\* element amortizationYears and no element treasuryRate, so both are 0
AppDeal(inputs) ==
    DealModel(ParseFloatOrZero(inputs.propertyValue), ParseFloatOrZero(inputs.annualNOI),
              ParseFloatOrZero(inputs.loanAmount), ParseFloatOrZero(inputs.interestRate),
              ParseFloatOrZero(UNDEFINED), ParseFloatOrZero(UNDEFINED))

\* the texts displayDealResults writes in the result fields, as the numbers they show
Results(calculations, creditDecision) ==
    [resultCapRate |-> ToFixed(calculations.actualCapRate, 2),
     resultLTV |-> ToFixed(calculations.actualLTV, 1),
     resultDSCR |-> ToFixed(calculations.dscr, 2),
     resultDebtService |-> ToFixed(calculations.annualDebtService, 3),
     resultSpread |-> ToFixed(calculations.spread, 0),
     creditDecision |-> creditDecision.decision,
     color |-> creditDecision.color]

\* the message of addMarketContext for the averages of the markets
ContextMessage(dealCapRate, marketAvg) ==
    IF RGt(dealCapRate, RAdd(marketAvg, Dec(5, 10))) THEN "above market average"
    ELSE IF RLt(dealCapRate, RSub(marketAvg, Dec(5, 10))) THEN "below market average"
    ELSE "in line with market average"

\* the average of the avgRate of the items
AvgRateOf(items) == Mean([i \in DOMAIN items |-> items[i].avgRate])

\* addMarketContext(dealCapRate)
AddMarketContext(processed, dealCapRate) ==
    ContextMessage(dealCapRate, AvgRateOf(GetMarketRanking(processed, 50)))

-----------------------------------------------------------------------------
(* Inputs *)

\* the largest number of monthly payments of a deal with a positive rate
MaxPayments == 3

\* DSCR values in hundredths, LTV values in percent, cap rates in tenths of a
\* percent: each threshold of the decision matrix, its neighbour, and the
\* metrics of the two deals of the unit tests
DscrGrid == {52, 114, 115, 119, 120, 124, 125, 129, 130, 139, 140, 238}

LtvGrid == {60, 70, 71, 75, 76, 80, 81, 85, 86, 90, 91}

CapGrid == {39, 40, 44, 45, 54, 55, 59, 60, 100}

\* a zero-rate deal on a property of 1000 whose metrics are dscr = d/100,
\* actualLTV = l and actualCapRate = c/10
TierDeal(d, l, c) ==
    DealModel(N(1000), N(c), N(10 * l), N(0), Rat(d * l, 10 * c), N(0))

TierDeals == {TierDeal(d, l, c) : d \in DscrGrid, l \in LtvGrid, c \in CapGrid}

LoanAmounts == {N(600), N(700), N(900)}

\* deals that amortize over 1..MaxPayments months at 0%, 120% or 600% a year
\* (a monthly rate of 0, 1/10 or 1/2)
AmortDeals ==
    {DealModel(N(1000), noi, loan, rate, Rat(months, 12), N(4)) :
        noi \in {N(100)}, loan \in LoanAmounts,
        rate \in {N(0), N(120), N(600)}, months \in 1..MaxPayments}

\* deals with a missing (zero), negative or out-of-range input
EdgeDeals ==
    {DealModel(N(0), N(80), N(750), N(0), N(25), N(4)),
     DealModel(N(-1000), N(80), N(750), N(0), N(25), N(4)),
     DealModel(N(1000), N(0), N(750), N(120), Rat(2, 12), N(4)),
     DealModel(N(1000), N(-80), N(750), N(0), N(25), N(4)),
     DealModel(N(1000), N(80), N(0), N(0), N(25), N(4)),
     DealModel(N(1000), N(80), N(0), N(0), N(0), N(0)),
     DealModel(N(1000), N(80), N(750), N(120), N(0), N(4)),
     DealModel(N(1000), N(80), N(750), N(0), N(25), N(11))}

SampleTierDeals ==
    {TierDeal(d, l, c) : d \in {52, 140, 238}, l \in {60, 90}, c \in {40, 100}}

Deals == AmortDeals \cup EdgeDeals \cup SampleTierDeals

DerivedValues == {N(800), N(1250)}

TargetLTVs == {N(0), N(75), N(100), N(101)}

CapRateRanges ==
    {[minRate |-> N(5), avgRate |-> N(6), maxRate |-> N(8)],
     [minRate |-> N(0), avgRate |-> Dec(65, 10), maxRate |-> N(7)]}

Validations == {"none", "OVERVALUED", "UNDERVALUED", "WITHIN_RANGE", "REVIEW_REQUIRED"}

\* the values a metric takes that are not finite numbers
NonFinite == {NaN, Rat(1, 0), Rat(-1, 0)}

DscrArgs ==
    {Dec(k, 100) : k \in {100, 114, 115, 120, 124, 125, 130, 134, 135, 150}} \cup NonFinite

LtvArgs ==
    {Dec(k, 10) : k \in {650, 700, 701, 720, 750, 751, 800, 801, 850, 851, 900}} \cup NonFinite

ImpliedLoans == {N(k) : k \in {0, 650, 700, 701, 720, 750, 751, 800, 801, 850, 851, 900}}

ImpliedValues == {N(0), N(1000)}

\* a raw row of the file
Row(sector, market, h1Low, h1High, h2Low, h2High, year, half) ==
    [Sector |-> sector, Market |-> market, H1_Low |-> h1Low, H1_High |-> h1High,
     H2_Low |-> h2Low, H2_High |-> h2High, Report_Year |-> year, Report_Half |-> half]

\* the greatest number of rows of a generated file
MaxRows == 3

RECURSIVE SeqsUpTo(_, _)
SeqsUpTo(S, n) ==
    IF n = 0 THEN {<<>>}
    ELSE SeqsUpTo(S, n - 1)
         \cup {Append(seq, x) : seq \in {t \in SeqsUpTo(S, n - 1) : Len(t) = n - 1}, x \in S}

\* the rows of mockCSVData of the unit tests
MockRows ==
    <<Row(<<"I", "n", "d", "u", "s", "t", "r", "i", "a", "l">>, <<"L", "o", "s", " ", "A", "n", "g", "e", "l", "e", "s">>,
        <<"4", ".", "5">>, <<"5", ".", "5">>, <<"4", ".", "2">>, <<"5", ".", "2">>,
        <<"2", "0", "2", "4">>, <<"H", "1">>),
      Row(<<"M", "u", "l", "t", "i", "f", "a", "m", "i", "l", "y">>, <<"N", "e", "w", " ", "Y", "o", "r", "k">>,
        <<"3", ".", "8">>, <<"4", ".", "8">>, <<"3", ".", "5">>, <<"4", ".", "5">>,
        <<"2", "0", "2", "4">>, <<"H", "1">>),
      Row(<<"O", "f", "f", "i", "c", "e">>, <<"D", "a", "l", "l", "a", "s">>,
        <<"6", ".", "0">>, <<"7", ".", "0">>, <<"5", ".", "8">>, <<"6", ".", "8">>,
        <<"2", "0", "2", "4">>, <<"H", "1">>),
      Row(<<"R", "e", "t", "a", "i", "l">>, <<"C", "h", "i", "c", "a", "g", "o">>,
        <<"5", ".", "5">>, <<"6", ".", "5">>, <<"5", ".", "2">>, <<"6", ".", "2">>,
        <<"2", "0", "2", "4">>, <<"H", "1">>),
      Row(<<"H", "o", "t", "e", "l">>, <<"S", "a", "n", " ", "F", "r", "a", "n", "c", "i", "s", "c", "o">>,
        <<"7", ".", "0">>, <<"8", ".", "0">>, <<"6", ".", "8">>, <<"7", ".", "8">>,
        <<"2", "0", "2", "4">>, <<"H", "1">>)>>

\* the rows of timeSeriesCSV of the unit tests
TimeSeriesRows ==
    <<Row(<<"I", "n", "d", "u", "s", "t", "r", "i", "a", "l">>, <<"L", "o", "s", " ", "A", "n", "g", "e", "l", "e", "s">>,
        <<"4", ".", "5">>, <<"5", ".", "5">>, <<"4", ".", "2">>, <<"5", ".", "2">>,
        <<"2", "0", "2", "3">>, <<"H", "1">>),
      Row(<<"I", "n", "d", "u", "s", "t", "r", "i", "a", "l">>, <<"L", "o", "s", " ", "A", "n", "g", "e", "l", "e", "s">>,
        <<"4", ".", "8">>, <<"5", ".", "8">>, <<"4", ".", "5">>, <<"5", ".", "5">>,
        <<"2", "0", "2", "3">>, <<"H", "2">>),
      Row(<<"I", "n", "d", "u", "s", "t", "r", "i", "a", "l">>, <<"L", "o", "s", " ", "A", "n", "g", "e", "l", "e", "s">>,
        <<"5", ".", "0">>, <<"6", ".", "0">>, <<"4", ".", "8">>, <<"5", ".", "8">>,
        <<"2", "0", "2", "4">>, <<"H", "1">>)>>

\* rows that pass and rows that fail each check of processData
RawRows ==
    {Row(<<"O", "f", "f", "i", "c", "e">>, <<"D", "a", "l", "l", "a", "s">>,
        <<"4", ".", "0">>, <<"6", ".", "0">>, <<"5", ".", "0">>, <<"7", ".", "0">>,
        <<"2", "0", "2", "3">>, <<"1">>),
     Row(<<"R", "e", "t", "a", "i", "l">>, <<"A", "u", "s", "t", "i", "n">>,
        <<"a", "b", "c">>, <<>>, <<"1", "6", ".", "0">>, <<"9", ".", "5">>,
        <<"2", "0", "2", "5", ".", "9">>, <<"2">>),
     Row(<<"O", "f">>, <<"D", "a", "l", "l", "a", "s">>,
        <<"4", ".", "0">>, <<"6", ".", "0">>, <<"5", ".", "0">>, <<"7", ".", "0">>,
        <<"2", "0", "2", "3">>, <<"1">>),
     Row(UNDEFINED, <<"D", "a", "l", "l", "a", "s">>,
        <<"4", ".", "0">>, <<"6", ".", "0">>, <<"5", ".", "0">>, <<"7", ".", "0">>,
        <<"2", "0", "2", "3">>, <<"1">>),
     Row(<<"O", "f", "f", "i", "c", "e">>, <<"D", "a", "l", "l", "a", "s">>,
        <<"4", ".", "0">>, <<"6", ".", "0">>, <<"5", ".", "0">>, <<"7", ".", "0">>,
        <<"2", "0", "1", "9">>, <<"1">>),
     Row(<<"O", "f", "f", "i", "c", "e">>, <<"D", "a", "l", "l", "a", "s">>,
        <<"4", ".", "0">>, <<"6", ".", "0">>, <<"5", ".", "0">>, <<"7", ".", "0">>,
        <<"2", "0", "2", "3">>, <<"3">>),
     Row(<<"O", "f", "f", "i", "c", "e">>, <<"D", "a", "l", "l", "a", "s">>,
        <<"0", ".", "5">>, <<"1", "6", ".", "0">>, <<"a", "b", "c">>, <<>>,
        <<"2", "0", "2", "3">>, <<"1">>),
     Row(<<"I", "n", "d", "u", "s", "t", "r", "i", "a", "l">>, <<"L", "o", "s", " ", "A", "n", "g", "e", "l", "e", "s">>,
        <<"4", ".", "5">>, <<"5", ".", "5">>, <<"4", ".", "2">>, <<"5", ".", "2">>,
        <<"2", "0", "2", "4">>, <<"H", "1">>)}

ProcessFiles == SeqsUpTo(RawRows, MaxRows) \cup {MockRows, TimeSeriesRows}

\* admitted rows with one or both averages, an h1 average of 0 and an invalid
\* market name
SampleRows ==
    {Row(<<"O", "f", "f", "i", "c", "e">>, <<"D", "a", "l", "l", "a", "s">>,
        <<"4", ".", "0">>, <<"6", ".", "0">>, <<"5", ".", "0">>, <<"7", ".", "0">>,
        <<"2", "0", "2", "3">>, <<"1">>),
     Row(<<"O", "f", "f", "i", "c", "e">>, <<"A", "u", "s", "t", "i", "n">>,
        <<"6", ".", "0">>, <<"8", ".", "0">>, <<>>, <<>>,
        <<"2", "0", "2", "3">>, <<"1">>),
     Row(<<"R", "e", "t", "a", "i", "l">>, <<"D", "a", "l", "l", "a", "s">>,
        <<>>, <<>>, <<"3", ".", "0">>, <<"5", ".", "0">>,
        <<"2", "0", "2", "4">>, <<"1">>),
     Row(<<"R", "e", "t", "a", "i", "l">>, <<"2", "0", "2", "3">>,
        <<"8", ".", "0">>, <<"1", "0", ".", "0">>, <<"2", ".", "0">>, <<"4", ".", "0">>,
        <<"2", "0", "2", "4">>, <<"1">>),
     Row(<<"O", "f", "f", "i", "c", "e">>, <<"D", "a", "l", "l", "a", "s">>,
        <<"0">>, <<"0">>, <<"9", ".", "0">>, <<"1", "1", ".", "0">>,
        <<"2", "0", "2", "4">>, <<"2">>)}

DataFiles == SeqsUpTo(SampleRows, MaxRows) \cup {MockRows, TimeSeriesRows}

\* rows of several periods for the trend of updateStatistics: one rate or two in a
\* record, rates 0.2 and 0.1 apart, and records whose only average is 0
TrendRows ==
    {Row(<<"O", "f", "f", "i", "c", "e">>, <<"D", "a", "l", "l", "a", "s">>,
        <<"5", ".", "0">>, <<"5", ".", "0">>, <<>>, <<>>,
        <<"2", "0", "2", "2">>, <<"1">>),
     Row(<<"O", "f", "f", "i", "c", "e">>, <<"D", "a", "l", "l", "a", "s">>,
        <<"4", ".", "0">>, <<"6", ".", "0">>, <<"5", ".", "0">>, <<"7", ".", "0">>,
        <<"2", "0", "2", "3">>, <<"1">>),
     Row(<<"O", "f", "f", "i", "c", "e">>, <<"A", "u", "s", "t", "i", "n">>,
        <<"5", ".", "5">>, <<"5", ".", "5">>, <<>>, <<>>,
        <<"2", "0", "2", "3">>, <<"1">>),
     Row(<<"O", "f", "f", "i", "c", "e">>, <<"D", "a", "l", "l", "a", "s">>,
        <<"5", ".", "2">>, <<"5", ".", "2">>, <<>>, <<>>,
        <<"2", "0", "2", "3">>, <<"2">>),
     Row(<<"O", "f", "f", "i", "c", "e">>, <<"D", "a", "l", "l", "a", "s">>,
        <<"5", ".", "1">>, <<"5", ".", "1">>, <<>>, <<>>,
        <<"2", "0", "2", "4">>, <<"1">>),
     Row(<<"O", "f", "f", "i", "c", "e">>, <<"D", "a", "l", "l", "a", "s">>,
        <<"1">>, <<"-", "1">>, <<>>, <<>>,
        <<"2", "0", "2", "4">>, <<"2">>),
     Row(<<"O", "f", "f", "i", "c", "e">>, <<"D", "a", "l", "l", "a", "s">>,
        <<"4", ".", "8">>, <<"4", ".", "8">>, <<>>, <<>>,
        <<"2", "0", "2", "5">>, <<"1">>),
     Row(<<"O", "f", "f", "i", "c", "e">>, <<"D", "a", "l", "l", "a", "s">>,
        <<"2">>, <<"-", "2">>, <<>>, <<>>,
        <<"2", "0", "2", "5">>, <<"2">>)}

TrendFiles == SeqsUpTo(TrendRows, MaxRows)

\* records to write as text: with and without a comma in the market or the sector
CsvRows ==
    {Row(<<"O", "f", "f", "i", "c", "e">>, <<"D", "a", "l", "l", "a", "s">>,
        <<"4", ".", "0">>, <<"6", ".", "0">>, <<"5", ".", "0">>, <<"7", ".", "0">>,
        <<"2", "0", "2", "3">>, <<"1">>),
     Row(<<"R", "e", "t", "a", "i", "l">>, <<"D", "a", "l", "l", "a", "s", ",", " ", "T", "X">>,
        <<>>, <<>>, <<"3", ".", "0">>, <<"5", ".", "0">>,
        <<"2", "0", "2", "4">>, <<"1">>),
     Row(<<"O", "f", "f", "i", "c", "e", ",", " ", "M", "e", "d", "i", "c", "a", "l">>, <<"A", "u", "s", "t", "i", "n">>,
        <<"6", ".", "0">>, <<"8", ".", "0">>, <<>>, <<>>,
        <<"2", "0", "2", "3">>, <<"2">>),
     Row(<<"I", "n", "d", "u", "s", "t", "r", "i", "a", "l">>, <<"A", "u", "s", "t", "i", "n">>,
        <<"5", ".", "5">>, <<"5", ".", "5">>, <<>>, <<>>,
        <<"2", "0", "2", "4">>, <<"2">>)}

CsvFiles == SeqsUpTo(CsvRows, MaxRows)

\* normalized records to merge: a record, a revision of it with its rates changed,
\* and a record with rates missing
MergeRows ==
    {Row(<<"O", "f", "f", "i", "c", "e">>, <<"D", "a", "l", "l", "a", "s">>,
        <<"4", ".", "5">>, <<"5", ".", "5">>, <<"4", ".", "2">>, <<"5", ".", "2">>,
        <<"2", "0", "2", "4">>, <<"1">>),
     Row(<<"O", "f", "f", "i", "c", "e">>, <<"D", "a", "l", "l", "a", "s">>,
        <<"4", ".", "5">>, <<"5", ".", "5">>, <<"4", ".", "2">>, <<"5", ".", "3">>,
        <<"2", "0", "2", "4">>, <<"1">>),
     Row(<<"R", "e", "t", "a", "i", "l">>, <<"A", "u", "s", "t", "i", "n">>,
        <<"6", ".", "0">>, <<"8", ".", "0">>, <<>>, <<>>,
        <<"2", "0", "2", "4">>, <<"2">>)}

\* the batches of a merge
MergeBatches == SeqsUpTo(MergeRows, MaxRows)

\* the historical datasets before the first merge
MergeFiles == SeqsUpTo(MergeRows, 1)

\* the values typed in the six fields of the form: two sets of valid values, a set
\* without the SOFR rate and a set without the property value
FormInputs ==
    {[propertyValue |-> <<"1", "0", "0", "0">>, annualNOI |-> <<"1", "0", "0">>, loanAmount |-> <<"6", "0", "0">>,
      interestRate |-> <<"1", "2", "0">>, amortizationMonths |-> <<"3">>, sofrRate |-> <<"4">>],
     [propertyValue |-> <<"1", "0", "0", "0">>, annualNOI |-> <<"1", "0", "0">>, loanAmount |-> <<"6", "0", "0">>,
      interestRate |-> <<"6", "0", "0">>, amortizationMonths |-> <<"2">>, sofrRate |-> <<"4", ".", "5">>],
     [propertyValue |-> <<"1", "0", "0", "0">>, annualNOI |-> <<"1", "0", "0">>, loanAmount |-> <<"6", "0", "0">>,
      interestRate |-> <<"1", "2", "0">>, amortizationMonths |-> <<"3">>, sofrRate |-> <<>>],
     [propertyValue |-> <<>>, annualNOI |-> <<"1", "0", "0">>, loanAmount |-> <<"6", "0", "0">>,
      interestRate |-> <<"1", "2", "0">>, amortizationMonths |-> <<"3">>, sofrRate |-> <<"4">>]}

\* the files the page loads: no record, or the record of Office in Dallas for 2023_1
PageFiles ==
    {seq \in SeqsUpTo(SampleRows, 1) :
        \A i \in DOMAIN seq : /\ seq[i].Sector = <<"O", "f", "f", "i", "c", "e">>
                              /\ seq[i].Market = <<"D", "a", "l", "l", "a", "s">>
                              /\ seq[i].Report_Year = <<"2", "0", "2", "3">>}

\* the sector and the market of a query: none, one of them, both
SeriesArgs ==
    {<<UNDEFINED, UNDEFINED>>, <<<<"O", "f", "f", "i", "c", "e">>, UNDEFINED>>,
     <<<<"R", "e", "t", "a", "i", "l">>, UNDEFINED>>, <<UNDEFINED, <<"D", "a", "l", "l", "a", "s">>>>,
     <<<<"O", "f", "f", "i", "c", "e">>, <<"D", "a", "l", "l", "a", "s">>>>,
     <<<<"I", "n", "d", "u", "s", "t", "r", "i", "a", "l">>, <<"L", "o", "s", " ", "A", "n", "g", "e", "l", "e", "s">>>>}

MarketArgs == {UNDEFINED, <<"D", "a", "l", "l", "a", "s">>, <<"A", "u", "s", "t", "i", "n">>, <<"2", "0", "2", "3">>}

Limits == {1, 2, 10}

\* the criteria of filterData: none, a sector, a market with valid markets only,
\* a period, all of them, and a market that is not valid
FilterArgs ==
    {Criteria(UNDEFINED, UNDEFINED, UNDEFINED, FALSE),
     Criteria(<<"O", "f", "f", "i", "c", "e">>, UNDEFINED, UNDEFINED, FALSE),
     Criteria(UNDEFINED, <<"D", "a", "l", "l", "a", "s">>, UNDEFINED, TRUE),
     Criteria(UNDEFINED, UNDEFINED, <<"2", "0", "2", "4", "_", "1">>, FALSE),
     Criteria(<<"O", "f", "f", "i", "c", "e">>, <<"D", "a", "l", "l", "a", "s">>,
              <<"2", "0", "2", "3", "_", "1">>, TRUE),
     Criteria(UNDEFINED, <<"2", "0", "2", "3">>, UNDEFINED, TRUE)}

\* the files of the market validation: two rates for Office in Dallas
\* (5 and 6 in 2023_1, 10 alone in 2024_2)
MarketFiles ==
    {seq \in SeqsUpTo(SampleRows, 2) :
        \A i \in DOMAIN seq : seq[i].Sector = <<"O", "f", "f", "i", "c", "e">> /\ seq[i].Market = <<"D", "a", "l", "l", "a", "s">>}

PeriodArgs == {<<"2", "0", "2", "3", "_", "1">>, <<"2", "0", "2", "4", "_", "2">>, <<>>}

\* the numbers of the form: a net operating income and a loan amount above 0,
\* a property value or none
ValidationInputs ==
    {[annualNOI |-> N(noi), loanAmount |-> N(750), sector |-> <<"O", "f", "f", "i", "c", "e">>,
      market |-> <<"D", "a", "l", "l", "a", "s">>, period |-> period, propertyValue |-> pv] :
        noi \in {3900, 4000, 4500, 4675, 5500, 6325, 6326, 7000, 7200, 7300},
        period \in PeriodArgs,
        pv \in {NULL, N(0), N(100000)}}

\* the values of a rate column
RateStrings ==
    {UNDEFINED, <<>>, <<"1", ".", "0">>, <<"1", "5", ".", "0">>, <<"0", ".", "5">>, <<"1", "6", ".", "0">>, <<"a", "b", "c">>, <<"5", ".", "5">>, <<"1">>, <<"1", "5">>, <<"0", ".", "9", "9">>, <<"1", "5", ".", "0", "1">>, <<"7", "x">>, <<" ", "7">>, <<"-", "3">>, <<".">>}

\* the names of a market column
MarketNames ==
    {UNDEFINED, <<>>, <<"N", "e", "w", " ", "Y", "o", "r", "k">>, <<"L", "o", "s", " ", "A", "n", "g", "e", "l", "e", "s">>, <<"C", "h", "i", "c", "a", "g", "o">>, <<"x", "y">>, <<"2", "0", "2", "3">>, <<"8", "5", "%">>, <<"M", "a", "r", "k", "e", "t">>, <<"T", "h", "e">>, <<" ", "A", "u", "s", "t", "i", "n", " ">>, <<"3", "r", "d", " ", "W", "a", "r", "d">>}

-----------------------------------------------------------------------------
(* The page: the application, its controller and the form of the deal calculator *)

\* new CapRateDashboardApp()
NewApp == [pc |-> "created", isInitialized |-> FALSE, dashboardController |-> "null"]

\* new DashboardController(); a filter that is null is written UNDEFINED
NewController ==
    [dataService |-> "null", chartManager |-> "null", marketValidationService |-> "null",
     isInitialized |-> FALSE,
     currentFilters |-> [sector |-> UNDEFINED, market |-> UNDEFINED, period |-> UNDEFINED]]

\* the page as index.html describes it, with the given values in the fields of the form
Page(inputs) ==
    [inputs |-> inputs, results |-> NULL, marketContext |-> NULL, statistics |-> NULL,
     filtered |-> 0, exported |-> <<>>, analysis |-> NULL,
     listeners |-> {}, calculateDeal |-> <<>>, timer |-> FALSE, loading |-> FALSE,
     errorState |-> FALSE]

\* the empty form
EmptyForm ==
    [propertyValue |-> <<>>, annualNOI |-> <<>>, loanAmount |-> <<>>, interestRate |-> <<>>,
     amortizationMonths |-> <<>>, sofrRate |-> <<>>]

NoDispatch == [event |-> "none", pending |-> <<>>]

\* no page is open
NoPage ==
    /\ app = NewApp
    /\ controller = NewController
    /\ dom = Page(EmptyForm)
    /\ dispatch = NoDispatch

-----------------------------------------------------------------------------
(* The DealModel instance and the calls made on it *)

Start(deals) ==
    /\ deal \in deals
    /\ _calculations = NULL
    /\ cacheWrites = 0
    /\ ret = [op |-> "new", val |-> NULL]
    /\ file = <<>>
    /\ data = NULL
    /\ processedData = NULL
    /\ NoPage

Init == Start(Deals)

\* the call of calculate() a method makes on the receiver
Calculated == CalculateCall(_calculations, cacheWrites, deal)

calculate ==
    \E c \in {Calculated} :
        /\ _calculations' = c.cache
        /\ cacheWrites' = c.writes
        /\ ret' = [op |-> "calculate",
                   val |-> [object |-> c.result, fromCache |-> c.fromCache]]
        /\ UNCHANGED <<deal, serviceVars, pageVars>>

getCreditDecision ==
    \E c \in {Calculated} :
        /\ _calculations' = c.cache
        /\ cacheWrites' = c.writes
        /\ ret' = [op |-> "getCreditDecision",
                   val |-> [metrics |-> c.result.metrics,
                            decision |-> CreditDecision(c.result.metrics)]]
        /\ UNCHANGED <<deal, serviceVars, pageVars>>

getDealAnalysis ==
    \E c \in {Calculated} :
        /\ _calculations' = c.cache
        /\ cacheWrites' = c.writes
        /\ ret' = [op |-> "getDealAnalysis", val |-> DealAnalysis(c.result)]
        /\ UNCHANGED <<deal, serviceVars, pageVars>>

toJSON ==
    \E c \in {Calculated} :
        /\ _calculations' = c.cache
        /\ cacheWrites' = c.writes
        /\ ret' = [op |-> "toJSON",
                   val |-> [inputs |-> deal, calculations |-> c.result,
                            creditDecision |-> CreditDecision(c.result.metrics)]]
        /\ UNCHANGED <<deal, serviceVars, pageVars>>

getMarketValidationSummary ==
    \E validation \in Validations, c \in {Calculated} :
        LET marketData == [minRate |-> N(5), avgRate |-> N(6), maxRate |-> N(8)]
        IN  /\ _calculations' = c.cache
            /\ cacheWrites' = c.writes
            /\ ret' = [op |-> "getMarketValidationSummary",
                       val |-> MarketValidationSummary(deal, c.result, marketData, validation)]
            /\ UNCHANGED <<deal, serviceVars, pageVars>>

validateInputs ==
    /\ ret' = [op |-> "validateInputs", val |-> [errors |-> ValidateInputs(deal)]]
    /\ UNCHANGED <<dealVars, serviceVars, pageVars>>

getDSCRRisk ==
    \E dscr \in DscrArgs :
        /\ ret' = [op |-> "getDSCRRisk", val |-> [arg |-> dscr, risk |-> GetDSCRRisk(dscr)]]
        /\ UNCHANGED <<dealVars, serviceVars, pageVars>>

getLTVRisk ==
    \E ltv \in LtvArgs :
        /\ ret' = [op |-> "getLTVRisk", val |-> [arg |-> ltv, risk |-> GetLTVRisk(ltv)]]
        /\ UNCHANGED <<dealVars, serviceVars, pageVars>>

calculateWithDerivedValue ==
    \E derivedPropertyValue \in DerivedValues :
        \E r \in {CalculateWithDerivedValue(deal, _calculations, cacheWrites,
                                              derivedPropertyValue)} :
            /\ deal' = r.deal
            /\ _calculations' = r.cache
            /\ cacheWrites' = r.writes
            /\ ret' = [op |-> "calculateWithDerivedValue", val |-> r.result]
            /\ UNCHANGED <<serviceVars, pageVars>>

calculateRequiredPropertyValue ==
    \E targetLTV \in TargetLTVs :
        /\ ret' = [op |-> "calculateRequiredPropertyValue",
                   val |-> CalculateRequiredPropertyValue(deal, targetLTV)]
        /\ UNCHANGED <<dealVars, serviceVars, pageVars>>

calculateRequiredLoanAmount ==
    \E targetLTV \in TargetLTVs :
        /\ ret' = [op |-> "calculateRequiredLoanAmount",
                   val |-> CalculateRequiredLoanAmount(deal, targetLTV)]
        /\ UNCHANGED <<dealVars, serviceVars, pageVars>>

scenarioAnalysis ==
    \E capRateRange \in CapRateRanges :
        /\ ret' = [op |-> "scenarioAnalysis",
                   val |-> [scenarios |-> ScenarioAnalysis(deal, capRateRange)]]
        /\ UNCHANGED <<dealVars, serviceVars, pageVars>>

calculateImpliedLTV ==
    \E loanAmount \in ImpliedLoans, derivedPropertyValue \in ImpliedValues :
        /\ ret' = [op |-> "calculateImpliedLTV",
                   val |-> CalculateImpliedLTV(loanAmount, derivedPropertyValue)]
        /\ UNCHANGED <<dealVars, serviceVars, pageVars>>

Next ==
    \/ calculate
    \/ getCreditDecision
    \/ getDealAnalysis
    \/ toJSON
    \/ getMarketValidationSummary
    \/ validateInputs
    \/ getDSCRRisk
    \/ getLTVRisk
    \/ calculateWithDerivedValue
    \/ calculateRequiredPropertyValue
    \/ calculateRequiredLoanAmount
    \/ scenarioAnalysis

Spec == Init /\ [][Next]_vars

\* the risk bands alone: the calls whose result depends on their arguments only
InitBands == Start(EdgeDeals)

NextBands ==
    \/ getDSCRRisk
    \/ getLTVRisk
    \/ calculateImpliedLTV

SpecBands == InitBands /\ [][NextBands]_vars

\* the decision matrix alone, on every deal of the grid
InitTiers == Start(TierDeals)

NextTiers ==
    \/ calculate
    \/ getCreditDecision

SpecTiers == InitTiers /\ [][NextTiers]_vars

\* validateInputs() alone, on inputs at and around every bound it checks
ValidationDeals ==
    {DealModel(N(pv), N(noi), N(loan), N(rate), Rat(months, 12), N(sofr)) :
        pv \in {-1, 0, 1000}, noi \in {0, 80, 200, 201},
        loan \in {0, 750, 1000, 1001}, rate \in {-1, 0, 5, 20, 21},
        months \in {0, 1, 11, 12, 600, 601}, sofr \in {-1, 0, 4, 10, 11}}

InitValidate == Start(ValidationDeals)

NextValidate == validateInputs

SpecValidate == InitValidate /\ [][NextValidate]_vars

-----------------------------------------------------------------------------
(* The DataService instance, the file it loads and the calls made on it *)

\* the deal of the form while the data service is used
FormDeal == DealModel(N(1000), N(80), N(750), N(5), N(25), N(4))

StartService(files) ==
    /\ deal = FormDeal
    /\ _calculations = NULL
    /\ cacheWrites = 0
    /\ ret = [op |-> "new", val |-> NULL]
    /\ file \in files
    /\ data = NULL
    /\ processedData = NULL
    /\ NoPage

\* the rows parseCSV makes of the text of the file are the rows of `file`
loadCapRateData ==
    \E processed \in {ProcessData(file)} :
        /\ data' = [rows |-> file]
        /\ processedData' = [rows |-> processed]
        /\ ret' = [op |-> "loadCapRateData", val |-> [rows |-> processed]]
        /\ UNCHANGED <<dealVars, file, pageVars>>

processData ==
    \E rawData \in {file} :
        /\ ret' = [op |-> "processData",
                   val |-> [rawData |-> rawData, processed |-> ProcessData(rawData)]]
        /\ UNCHANGED <<dealVars, serviceVars, pageVars>>

isValidCapRate ==
    \E value \in RateStrings :
        /\ ret' = [op |-> "isValidCapRate",
                   val |-> [value |-> value, valid |-> IsValidCapRate(value)]]
        /\ UNCHANGED <<dealVars, serviceVars, pageVars>>

isValidMarket ==
    \E market \in MarketNames :
        /\ ret' = [op |-> "isValidMarket",
                   val |-> [market |-> market, valid |-> IsValidMarket(market)]]
        /\ UNCHANGED <<dealVars, serviceVars, pageVars>>

calculateAverage ==
    \E low \in RateStrings, high \in RateStrings :
        /\ ret' = [op |-> "calculateAverage",
                   val |-> [low |-> low, high |-> high,
                            average |-> CalculateAverage(low, high)]]
        /\ UNCHANGED <<dealVars, serviceVars, pageVars>>

getSectors ==
    /\ ret' = [op |-> "getSectors", val |-> GetSectors(processedData)]
    /\ UNCHANGED <<dealVars, serviceVars, pageVars>>

getMarkets ==
    /\ ret' = [op |-> "getMarkets", val |-> GetMarkets(processedData)]
    /\ UNCHANGED <<dealVars, serviceVars, pageVars>>

filterData ==
    \E criteria \in FilterArgs :
        /\ ret' = [op |-> "filterData",
                   val |-> [criteria |-> criteria,
                            rows |-> FilterData(processedData, criteria)]]
        /\ UNCHANGED <<dealVars, serviceVars, pageVars>>

getAdvancedStatistics ==
    /\ ret' = [op |-> "getAdvancedStatistics", val |-> GetAdvancedStatistics(processedData)]
    /\ UNCHANGED <<dealVars, serviceVars, pageVars>>

\* getPeriods() loading the file when no data is loaded
getPeriodsLoading ==
    \E processed \in {ProcessData(file)} :
        /\ data' = [rows |-> file]
        /\ processedData' = [rows |-> processed]
        /\ ret' = [op |-> "getPeriods", val |-> GetPeriods([rows |-> processed])]
        /\ UNCHANGED <<dealVars, file, pageVars>>

getPeriods ==
    /\ ret' = [op |-> "getPeriods", val |-> GetPeriods(processedData)]
    /\ UNCHANGED <<dealVars, serviceVars, pageVars>>

getTimeSeriesData ==
    \E args \in SeriesArgs :
        /\ ret' = [op |-> "getTimeSeriesData",
                   val |-> [sector |-> args[1], market |-> args[2],
                            series |-> GetTimeSeriesData(processedData, args[1], args[2])]]
        /\ UNCHANGED <<dealVars, serviceVars, pageVars>>

getSectorComparison ==
    /\ ret' = [op |-> "getSectorComparison", val |-> GetSectorComparison(processedData)]
    /\ UNCHANGED <<dealVars, serviceVars, pageVars>>

getMarketRanking ==
    \E limit \in Limits :
        /\ ret' = [op |-> "getMarketRanking",
                   val |-> [limit |-> limit,
                            ranking |-> GetMarketRanking(processedData, limit)]]
        /\ UNCHANGED <<dealVars, serviceVars, pageVars>>

getMultiSectorTimeSeriesData ==
    \E args \in SeriesArgs :
        /\ ret' = [op |-> "getMultiSectorTimeSeriesData",
                   val |-> [filterSector |-> args[1], filterMarket |-> args[2],
                            result |-> GetMultiSectorTimeSeriesData(processedData,
                                                                    args[1], args[2])]]
        /\ UNCHANGED <<dealVars, serviceVars, pageVars>>

getMarketAnalysis ==
    \E market \in MarketArgs :
        /\ ret' = [op |-> "getMarketAnalysis",
                   val |-> [market |-> market,
                            analysis |-> GetMarketAnalysis(processedData, market)]]
        /\ UNCHANGED <<dealVars, serviceVars, pageVars>>

updateStatistics ==
    /\ ret' = [op |-> "updateStatistics", val |-> UpdateStatistics(processedData)]
    /\ UNCHANGED <<dealVars, serviceVars, pageVars>>

performMarketValidation ==
    \E inputs \in ValidationInputs :
        /\ ret' = [op |-> "performMarketValidation",
                   val |-> [inputs |-> inputs,
                            results |-> PerformMarketValidation(processedData, inputs)]]
        /\ UNCHANGED <<dealVars, serviceVars, pageVars>>

\* the data service with its queries, on every generated file
InitData == StartService(DataFiles)

NextData ==
    \/ loadCapRateData
    \/ getSectors
    \/ getMarkets
    \/ getPeriods
    \/ getTimeSeriesData
    \/ getSectorComparison
    \/ getMarketRanking
    \/ getMultiSectorTimeSeriesData
    \/ getMarketAnalysis
    \/ updateStatistics

SpecData == InitData /\ [][NextData]_vars

-----------------------------------------------------------------------------
(* The page: the start of the application and the events of the deal calculator *)

StartPage(files) ==
    /\ deal = FormDeal
    /\ _calculations = NULL
    /\ cacheWrites = 0
    /\ ret = [op |-> "new", val |-> NULL]
    /\ file \in files
    /\ data = NULL
    /\ processedData = NULL
    /\ app = NewApp
    /\ controller = NewController
    /\ dom \in {Page(inputs) : inputs \in FormInputs}
    /\ dispatch = NoDispatch

\* what init() does once dashboardController.initialize() has returned:
\* setupErrorHandling, setupKeyboardShortcuts, setupDealCalculator, isInitialized = true
AppInitialized(page) ==
    /\ app' = [app EXCEPT !.pc = "done", !.isInitialized = TRUE]
    /\ dom' = [page EXCEPT !.listeners = @ \cup {"window.error", "document.keydown", "app.input"},
                           !.calculateDeal = Append(@, "CapRateDashboardApp.calculateDeal")]

\* app.init() up to the load of the data in DashboardController.initialize()
init ==
    /\ app.pc = "created"
    /\ app' = [app EXCEPT !.pc = "loading", !.dashboardController = "DashboardController"]
    /\ controller' = [NewController EXCEPT !.dataService = "DataService"]
    /\ dom' = [dom EXCEPT !.loading = TRUE]
    /\ ret' = [op |-> "init", val |-> "awaiting"]
    /\ UNCHANGED <<dealVars, serviceVars, dispatch>>

\* the data is loaded: initialize() goes on to initializeControls, updateStatistics and
\* the creation of the charts
dataLoaded ==
    /\ app.pc = "loading"
    /\ \E processed \in {ProcessData(file)} :
        /\ data' = [rows |-> file]
        /\ processedData' = [rows |-> processed]
        /\ dom' = [dom EXCEPT !.listeners = {"sectorFilter.change", "marketFilter.change",
                                             "periodFilter.change", "resetFilters.click",
                                             "exportData.click", "marketAnalysis.click",
                                             "toggleCalculator.click", "controller.input"},
                              !.calculateDeal = <<"DashboardController.calculateDeal">>,
                              !.statistics = UpdateStatistics([rows |-> processed])]
    /\ app' = [app EXCEPT !.pc = "charts"]
    /\ controller' = [controller EXCEPT !.chartManager = "ChartManager",
                                        !.marketValidationService = "MarketValidationService"]
    /\ ret' = [op |-> "loadCapRateData", val |-> "loaded"]
    /\ UNCHANGED <<dealVars, file, dispatch>>

\* the load fails: loadCapRateData throws, initialize() catches the error and shows it,
\* and init() goes on
dataNotLoaded ==
    /\ app.pc = "loading"
    /\ AppInitialized([dom EXCEPT !.loading = FALSE, !.errorState = TRUE])
    /\ ret' = [op |-> "loadCapRateData", val |-> "Failed to load cap rate data"]
    /\ UNCHANGED <<dealVars, serviceVars, controller, dispatch>>

\* the charts are made: initialize() sets isInitialized, and init() goes on
chartsInitialized ==
    /\ app.pc = "charts"
    /\ controller' = [controller EXCEPT !.isInitialized = TRUE]
    /\ AppInitialized([dom EXCEPT !.loading = FALSE])
    /\ ret' = [op |-> "initializeCharts", val |-> "initialized"]
    /\ UNCHANGED <<dealVars, serviceVars, dispatch>>

\* initializeCharts() throws: initialize() catches the error and shows it, and init() goes on
chartsNotInitialized ==
    /\ app.pc = "charts"
    /\ AppInitialized([dom EXCEPT !.loading = FALSE, !.errorState = TRUE])
    /\ ret' = [op |-> "initializeCharts", val |-> "Error initializing charts"]
    /\ UNCHANGED <<dealVars, serviceVars, controller, dispatch>>

\* the user types values in the form; the input listener of the application starts
\* the timer of debouncedCalculate
typeInputs ==
    /\ app.pc = "done"
    /\ dispatch.pending = <<>>
    /\ \E inputs \in FormInputs :
        /\ inputs # dom.inputs
        /\ dom' = [dom EXCEPT !.inputs = inputs, !.timer = "app.input" \in dom.listeners]
        /\ ret' = [op |-> "input", val |-> "typed"]
    /\ dispatch' = NoDispatch
    /\ UNCHANGED <<dealVars, serviceVars, app, controller>>

\* a click on the Calculate button: its listeners run in the order they were added
clickCalculateDeal ==
    /\ app.pc = "done"
    /\ dispatch.pending = <<>>
    /\ dom.calculateDeal # <<>>
    /\ dispatch' = [event |-> "calculateDeal.click", pending |-> dom.calculateDeal]
    /\ ret' = [op |-> "calculateDeal.click", val |-> "dispatched"]
    /\ UNCHANGED <<dealVars, serviceVars, app, controller, dom>>

\* DashboardController.calculateDeal(), the listener of the controller
controllerCalculateDeal ==
    /\ dispatch.pending # <<>>
    /\ Head(dispatch.pending) = "DashboardController.calculateDeal"
    /\ dispatch' = [dispatch EXCEPT !.pending = Tail(@)]
    /\ \E n \in {ControllerInputs(dom.inputs)} :
        IF HasMissingInputs(n)
        THEN /\ ret' = [op |-> "DashboardController.calculateDeal", val |-> "alert"]
             /\ UNCHANGED <<dealVars, dom>>
        ELSE \E c \in {CalculateCall(NULL, 0, ControllerDeal(n))} :
             /\ deal' = ControllerDeal(n)
             /\ _calculations' = c.cache
             /\ cacheWrites' = c.writes
             /\ IF controller.dataService = "null"
                THEN /\ dom' = [dom EXCEPT
                                  !.results = Results(c.result.metrics,
                                                      CreditDecision(c.result.metrics))]
                     /\ ret' = [op |-> "DashboardController.calculateDeal",
                                val |-> "TypeError"]
                ELSE /\ dom' = [dom EXCEPT
                                  !.results = Results(c.result.metrics,
                                                      CreditDecision(c.result.metrics)),
                                  !.marketContext =
                                      AddMarketContext(processedData,
                                                       c.result.metrics.actualCapRate)]
                     /\ ret' = [op |-> "DashboardController.calculateDeal",
                                val |-> "displayed"]
    /\ UNCHANGED <<serviceVars, app, controller>>

\* CapRateDashboardApp.calculateDeal() on the page
AppCalculateDeal(page) ==
    IF RLe(AppDeal(page.inputs).propertyValue, N(0)) \/ RLe(AppDeal(page.inputs).annualNOI, N(0))
    THEN /\ ret' = [op |-> "CapRateDashboardApp.calculateDeal", val |-> "showError"]
         /\ dom' = page
         /\ UNCHANGED dealVars
    ELSE \E c \in {CalculateCall(NULL, 0, AppDeal(page.inputs))} :
         /\ deal' = AppDeal(page.inputs)
         /\ _calculations' = c.cache
         /\ cacheWrites' = c.writes
         /\ dom' = [page EXCEPT !.results = Results(c.result.metrics,
                                                    CreditDecision(c.result.metrics))]
         /\ ret' = [op |-> "CapRateDashboardApp.calculateDeal", val |-> "displayed"]

\* CapRateDashboardApp.calculateDeal(), the listener of the application
appCalculateDeal ==
    /\ dispatch.pending # <<>>
    /\ Head(dispatch.pending) = "CapRateDashboardApp.calculateDeal"
    /\ dispatch' = [dispatch EXCEPT !.pending = Tail(@)]
    /\ AppCalculateDeal(dom)
    /\ UNCHANGED <<serviceVars, app, controller>>

\* the timer of debouncedCalculate fires
debouncedCalculate ==
    /\ dom.timer
    /\ dispatch.pending = <<>>
    /\ dispatch' = NoDispatch
    /\ AppCalculateDeal([dom EXCEPT !.timer = FALSE])
    /\ UNCHANGED <<serviceVars, app, controller>>

\* updateCharts() with the filters given: what it does
UpdateCharts(filters) ==
    IF ~controller.isInitialized THEN "return"
    ELSE IF controller.chartManager = "null" \/ controller.dataService = "null" THEN "TypeError"
    ELSE "updateCharts"

\* the listener of a filter: the filter is set and the charts are updated
FilterChanged(op, filters) ==
    /\ controller' = [controller EXCEPT !.currentFilters = filters]
    /\ ret' = [op |-> op, val |-> UpdateCharts(filters)]
    /\ dom' = [dom EXCEPT !.filtered =
                 IF UpdateCharts(filters) = "updateCharts"
                 THEN Len(FilterData(processedData,
                                     Criteria(filters.sector, filters.market, filters.period, TRUE)))
                 ELSE @]
    /\ dispatch' = NoDispatch
    /\ UNCHANGED <<dealVars, serviceVars, app>>

\* e.target.value || null
ValueOrNull(value) == IF value = <<>> THEN UNDEFINED ELSE value

sectorFilterChange ==
    /\ app.pc = "done" /\ dispatch.pending = <<>>
    /\ "sectorFilter.change" \in dom.listeners
    /\ \E value \in {<<>>} \cup Range(GetSectors(processedData)) :
        FilterChanged("sectorFilter.change",
                      [controller.currentFilters EXCEPT !.sector = ValueOrNull(value)])

marketFilterChange ==
    /\ app.pc = "done" /\ dispatch.pending = <<>>
    /\ "marketFilter.change" \in dom.listeners
    /\ \E value \in {<<>>} \cup Range(GetMarkets(processedData)) :
        FilterChanged("marketFilter.change",
                      [controller.currentFilters EXCEPT !.market = ValueOrNull(value)])

periodFilterChange ==
    /\ app.pc = "done" /\ dispatch.pending = <<>>
    /\ "periodFilter.change" \in dom.listeners
    /\ \E value \in {<<>>} \cup Range(GetPeriods(processedData)) :
        FilterChanged("periodFilter.change",
                      [controller.currentFilters EXCEPT !.period = ValueOrNull(value)])

\* resetFilters(), from the Reset button
resetFiltersClick ==
    /\ app.pc = "done" /\ dispatch.pending = <<>>
    /\ "resetFilters.click" \in dom.listeners
    /\ FilterChanged("resetFilters.click",
                     [sector |-> UNDEFINED, market |-> UNDEFINED, period |-> UNDEFINED])

\* exportData(): what it does
ExportData(filters) ==
    IF controller.dataService = "null" THEN "TypeError"
    ELSE IF processedData = NULL THEN "return"
    ELSE IF Len(FilterData(processedData,
                           Criteria(filters.sector, filters.market, filters.period, TRUE))) = 0
    THEN "alert"
    ELSE "download"

\* exportData(), from the Export button; the records of the file it offers are kept
exportDataClick ==
    /\ app.pc = "done" /\ dispatch.pending = <<>>
    /\ "exportData.click" \in dom.listeners
    /\ \E outcome \in {ExportData(controller.currentFilters)} :
        /\ ret' = [op |-> "exportData.click", val |-> outcome]
        /\ dom' = [dom EXCEPT !.exported =
                     IF outcome = "download"
                     THEN FilterData(processedData,
                                     Criteria(controller.currentFilters.sector,
                                              controller.currentFilters.market,
                                              controller.currentFilters.period, TRUE))
                     ELSE @]
    /\ dispatch' = NoDispatch
    /\ UNCHANGED <<dealVars, serviceVars, app, controller>>

\* showMarketAnalysis(): what it does
ShowMarketAnalysis(market) ==
    IF NoString(market) THEN "alert: select a market"
    ELSE IF controller.dataService = "null" THEN "TypeError"
    ELSE IF GetMarketAnalysis(processedData, market) = NULL THEN "alert: no data"
    ELSE "displayMarketAnalysis"

\* showMarketAnalysis(), from the Market Analysis button
marketAnalysisClick ==
    /\ app.pc = "done" /\ dispatch.pending = <<>>
    /\ "marketAnalysis.click" \in dom.listeners
    /\ \E outcome \in {ShowMarketAnalysis(controller.currentFilters.market)} :
        /\ ret' = [op |-> "marketAnalysis.click", val |-> outcome]
        /\ dom' = [dom EXCEPT !.analysis =
                     IF outcome = "displayMarketAnalysis"
                     THEN GetMarketAnalysis(processedData, controller.currentFilters.market)
                     ELSE @]
    /\ dispatch' = NoDispatch
    /\ UNCHANGED <<dealVars, serviceVars, app, controller>>

\* app.destroy(): the controller is destroyed and dropped; the listeners stay wired
destroy ==
    /\ app.pc = "done" /\ dispatch.pending = <<>>
    /\ app.dashboardController # "null"
    /\ controller' = [controller EXCEPT !.dataService = "null", !.chartManager = "null",
                                        !.marketValidationService = "null",
                                        !.isInitialized = FALSE]
    /\ app' = [app EXCEPT !.dashboardController = "null", !.isInitialized = FALSE]
    /\ ret' = [op |-> "destroy", val |-> "destroyed"]
    /\ dispatch' = NoDispatch
    /\ UNCHANGED <<dealVars, serviceVars, dom>>

\* the page from its start on
InitPage == StartPage(PageFiles)

NextPage ==
    \/ init
    \/ dataLoaded
    \/ dataNotLoaded
    \/ chartsInitialized
    \/ chartsNotInitialized
    \/ typeInputs
    \/ clickCalculateDeal
    \/ controllerCalculateDeal
    \/ appCalculateDeal
    \/ debouncedCalculate
    \/ sectorFilterChange
    \/ marketFilterChange
    \/ periodFilterChange
    \/ resetFiltersClick
    \/ exportDataClick
    \/ marketAnalysisClick
    \/ destroy

SpecPage == InitPage /\ [][NextPage]_vars

\* convertToCSV(data) on the records of `file`
convertToCSV ==
    \E rows \in {file} :
        /\ ret' = [op |-> "convertToCSV", val |-> ConvertToCSV(rows)]
        /\ UNCHANGED <<dealVars, serviceVars, pageVars>>

\* parseCSV(csvText) on the text convertToCSV makes of the records of `file`
parseCSV ==
    \E csvText \in {ConvertToCSV(file)} :
        /\ ret' = [op |-> "parseCSV", val |-> [csvText |-> csvText, rows |-> ParseCSV(csvText)]]
        /\ UNCHANGED <<dealVars, serviceVars, pageVars>>

\* records written as text and the text parsed
InitCSV == StartService(CsvFiles)

NextCSV ==
    \/ convertToCSV
    \/ parseCSV

SpecCSV == InitCSV /\ [][NextCSV]_vars

\* a processing run merges a batch into the historical dataset
merge_with_existing_data ==
    \E batch \in MergeBatches :
        \E merged \in {MergeWithExistingData(file, batch)} :
            /\ file' = merged.dataset
            /\ ret' = [op |-> "merge_with_existing_data",
                       val |-> [batch |-> batch,
                                newRecords |-> merged.newRecords,
                                duplicateRecords |-> merged.duplicateRecords]]
            /\ UNCHANGED <<dealVars, data, processedData, pageVars>>

\* the processing runs on the historical dataset
InitMerge == StartService(MergeFiles)

NextMerge ==
    \/ merge_with_existing_data

SpecMerge == InitMerge /\ [][NextMerge]_vars

\* the statistics of the dashboard, on files of records of several periods
InitTrend == StartService(TrendFiles)

NextTrend ==
    \/ loadCapRateData
    \/ updateStatistics

SpecTrend == InitTrend /\ [][NextTrend]_vars

\* the data service with every query, before and after the load
InitQueries == StartService(DataFiles)

NextQueries ==
    \/ loadCapRateData
    \/ getSectors
    \/ getMarkets
    \/ getPeriods
    \/ filterData
    \/ getTimeSeriesData
    \/ getSectorComparison
    \/ getMarketRanking
    \/ getMultiSectorTimeSeriesData
    \/ getMarketAnalysis
    \/ getAdvancedStatistics

SpecQueries == InitQueries /\ [][NextQueries]_vars

\* processData alone, on files with rows that fail its checks
InitProcess == StartService(ProcessFiles)

NextProcess ==
    \/ loadCapRateData
    \/ processData

SpecProcess == InitProcess /\ [][NextProcess]_vars

\* the checks and the average of the columns of a row
InitFields == StartService({<<>>})

NextFields ==
    \/ isValidCapRate
    \/ isValidMarket
    \/ calculateAverage

SpecFields == InitFields /\ [][NextFields]_vars

\* the market validation on the loaded file
InitMarket == StartService(MarketFiles)

NextMarket ==
    \/ loadCapRateData
    \/ performMarketValidation

SpecMarket == InitMarket /\ [][NextMarket]_vars

-----------------------------------------------------------------------------
(* Properties *)

Tier1(m) == RGe(m.dscr, Dec(140, 100)) /\ RLe(m.actualLTV, N(70)) /\ RGe(m.actualCapRate, N(6))

Tier2(m) == RGe(m.dscr, Dec(130, 100)) /\ RLe(m.actualLTV, N(75)) /\ RGe(m.actualCapRate, Dec(55, 10))

Tier3(m) == RGe(m.dscr, Dec(125, 100)) /\ RLe(m.actualLTV, N(80)) /\ RGe(m.actualCapRate, Dec(45, 10))

Tier4(m) == RGe(m.dscr, Dec(120, 100)) /\ RLe(m.actualLTV, N(85)) /\ RGe(m.actualCapRate, N(4))

Tier5(m) == RGe(m.dscr, Dec(115, 100)) /\ RLe(m.actualLTV, N(90))

Decided(r, decision, risk) == r.decision = decision /\ r.risk = risk

WeakDeal(m) == RLt(m.dscr, Dec(115, 100)) /\ m.actualLTV = N(90) /\ m.actualCapRate = N(4)

\* C2: a weak deal is declined and the risk label of the decision is VERY_HIGH.
C2_WeakDealDeclinedVeryHigh ==
    ret.op = "getCreditDecision" /\ WeakDeal(ret.val.metrics) =>
        Decided(ret.val.decision, "DECLINE", "VERY_HIGH")

\* the metrics of the strong deal of the unit test: LTV 60, cap rate 10 and a
\* DSCR above 1.40
StrongDeal(m) == RGt(m.dscr, Dec(140, 100)) /\ m.actualLTV = N(60) /\ m.actualCapRate = N(10)

\* C3: a strong deal receives the decision APPROVE with risk LOW.
C3_StrongDealApproved ==
    ret.op = "getCreditDecision" /\ StrongDeal(ret.val.metrics) =>
        Decided(ret.val.decision, "APPROVE", "LOW")

\* C4: the metrics are computed and the cache is written at most once; the
\* cache, once written, holds the object of that first write, and every
\* calculate() returns that object.
C4_CacheWrittenOnce ==
    /\ cacheWrites <= 1
    /\ _calculations = NULL <=> cacheWrites = 0
    /\ _calculations # NULL => _calculations.ref = 1
    /\ ret.op = "calculate" => ret.val.object = _calculations /\ ret.val.object.ref = 1

\* calculate() has returned the cached object of an earlier call
C4_Witness ==
    /\ ret.op = "calculate"
    /\ ret.val.fromCache
    /\ cacheWrites = 1

\* the documented constraints on a DealInput: positive property value, NOI and
\* loan amount, a rate of 0..20%, 1..600 months, an index rate of 0..10%
ViolatesConstraint(d) ==
    \/ RLe(d.propertyValue, N(0))
    \/ RLe(d.annualNOI, N(0))
    \/ RLe(d.loanAmount, N(0))
    \/ RLt(d.interestRate, N(0)) \/ RGt(d.interestRate, N(20))
    \/ RLt(d.amortizationYears, Rat(1, 12)) \/ RGt(d.amortizationYears, Rat(600, 12))
    \/ RLt(d.sofrRate, N(0)) \/ RGt(d.sofrRate, N(10))

\* C5: no metrics are computed for a DealInput that violates a constraint.
C5_NoMetricsForInvalidInput ==
    _calculations # NULL => ~ViolatesConstraint(deal)

\* msg is one of the messages of the list errors
Has(errors, msg) == \E i \in DOMAIN errors : errors[i] = msg

BoundMessages ==
    {"Property value must be positive", "Annual NOI must be positive",
     "Loan amount must be positive", "Interest rate must be between 0% and 20%",
     "Amortization must be between 1 and 50 years",
     "SOFR rate must be between 0% and 10%"}

\* loan <= value, NOI <= 20% of value and rate >= index
Plausible(d) ==
    /\ RLe(d.loanAmount, d.propertyValue)
    /\ RLe(d.annualNOI, RMul(d.propertyValue, Rat(20, 100)))
    /\ RGe(d.interestRate, d.sofrRate)

C7_InputsNeverChange ==
    [][/\ deal' = deal
       /\ ret'.op \in {"calculateWithDerivedValue", "calculateRequiredPropertyValue",
                       "calculateRequiredLoanAmount", "scenarioAnalysis"}
              => _calculations' = _calculations /\ cacheWrites' = cacheWrites]_vars

\* calculateWithDerivedValue has returned the metrics of a derived value on a
\* receiver whose own metrics are cached
C7_Witness ==
    /\ ret.op = "calculateWithDerivedValue"
    /\ _calculations # NULL
    /\ ret.val.derivedPropertyValue # deal.propertyValue
    /\ ret.val.calculations # _calculations.metrics

\* C8: at a rate of 0 the monthly payment is loanAmount / (amortizationYears *
\* 12); in every case annualDebtService = 12 * monthlyPayment and
\* breakEvenNOI = annualDebtService.
C8_ZeroRatePayment ==
    _calculations # NULL =>
        LET m == _calculations.metrics
        IN  /\ deal.interestRate = N(0) =>
                   m.monthlyPayment = RDiv(deal.loanAmount, RMul(deal.amortizationYears, N(12)))
            /\ m.annualDebtService = RMul(N(12), m.monthlyPayment)
            /\ m.breakEvenNOI = m.annualDebtService

\* the metrics of a zero-rate deal of 600 over 3 months are cached: 200 a month
C8_Witness ==
    /\ _calculations # NULL
    /\ deal.interestRate = N(0)
    /\ deal.loanAmount = N(600)
    /\ deal.amortizationYears = Rat(3, 12)
    /\ _calculations.metrics.monthlyPayment = N(200)

\* a DealInput: every amount and the amortization positive, the rate not negative
PositiveInputs(d) ==
    /\ RGt(d.propertyValue, N(0))
    /\ RGt(d.annualNOI, N(0))
    /\ RGt(d.loanAmount, N(0))
    /\ RGt(d.amortizationYears, N(0))
    /\ RGe(d.interestRate, N(0))

\* C9: with the other inputs fixed, a larger loan amount gives a strictly
\* smaller dscr when the rate is positive, and an equal dscr at no rate but 0.
C9_DscrDecreasesWithLoan ==
    _calculations # NULL /\ PositiveInputs(deal) =>
        \A loan \in LoanAmounts :
            RGt(loan, deal.loanAmount) =>
                LET mine == _calculations.metrics.dscr
                    other == ComputeMetrics([deal EXCEPT !.loanAmount = loan]).dscr
                IN  /\ RGt(deal.interestRate, N(0)) => RLt(other, mine)
                    /\ other = mine => deal.interestRate = N(0)

\* the dscr of a deal with a positive rate and the smallest loan is cached
C9_Witness ==
    /\ _calculations # NULL
    /\ PositiveInputs(deal)
    /\ RGt(deal.interestRate, N(0))
    /\ deal.loanAmount = N(600)
    /\ IsFinite(_calculations.metrics.dscr)

\* C10: the risk band calculateImpliedLTV attaches to the implied LTV is the
\* band getLTVRisk returns for that LTV.
C10_SameLTVBands ==
    ret.op = "calculateImpliedLTV" /\ ret.val # NULL =>
        ret.val.riskLevel =
            GetLTVRisk(RMul(RDiv(ret.val.loanAmount, ret.val.derivedPropertyValue), N(100))).level

\* the band of the claim for an LTV x that is a number
LTVBand(x) ==
    IF RLe(x, N(70)) THEN "CONSERVATIVE"
    ELSE IF RGt(x, N(70)) /\ RLe(x, N(75)) THEN "STANDARD"
    ELSE IF RGt(x, N(75)) /\ RLe(x, N(80)) THEN "AGGRESSIVE"
    ELSE IF RGt(x, N(80)) THEN "HIGH_RISK"
    ELSE "none"

\* C11: getLTVRisk returns one of the four bands for every argument, and for
\* an argument that is a number the band is CONSERVATIVE up to 70, STANDARD
\* above 70 up to 75, AGGRESSIVE above 75 up to 80 and HIGH_RISK above 80, so
\* that 75 is STANDARD and 80 is AGGRESSIVE.
C11_LTVBands ==
    ret.op = "getLTVRisk" =>
        /\ ret.val.risk.level \in {"CONSERVATIVE", "STANDARD", "AGGRESSIVE", "HIGH_RISK"}
        /\ ~IsNaN(ret.val.arg) => ret.val.risk.level = LTVBand(ret.val.arg)
        /\ ret.val.arg = N(75) => ret.val.risk.level = "STANDARD"
        /\ ret.val.arg = N(80) => ret.val.risk.level = "AGGRESSIVE"

C11_Witness ==
    ret.op = "getLTVRisk" /\ ret.val.arg = N(80) /\ ret.val.risk.level = "AGGRESSIVE"

\* the band of the claim for a DSCR x that is a number
DSCRBand(x) ==
    IF RGe(x, Dec(135, 100)) THEN "STRONG"
    ELSE IF RGe(x, Dec(125, 100)) /\ RLt(x, Dec(135, 100)) THEN "ACCEPTABLE"
    ELSE IF RGe(x, Dec(115, 100)) /\ RLt(x, Dec(125, 100)) THEN "MARGINAL"
    ELSE IF RLt(x, Dec(115, 100)) THEN "WEAK"
    ELSE "none"

\* C12: getDSCRRisk returns one of the four bands for every argument, and for
\* an argument that is a number the band is STRONG from 1.35, ACCEPTABLE from
\* 1.25 to below 1.35, MARGINAL from 1.15 to below 1.25 and WEAK below 1.15,
\* whatever the inputs of the deal it is called on.
C12_DSCRBands ==
    ret.op = "getDSCRRisk" =>
        /\ ret.val.risk.level \in {"STRONG", "ACCEPTABLE", "MARGINAL", "WEAK"}
        /\ ~IsNaN(ret.val.arg) => ret.val.risk.level = DSCRBand(ret.val.arg)

C12_Witness ==
    /\ ret.op = "getDSCRRisk" /\ ret.val.arg = Dec(125, 100)
    /\ ret.val.risk.level = "ACCEPTABLE"
    /\ RLe(deal.propertyValue, N(0))

\* the classification the chain of the documentation gives a deal cap rate
MarketClass(dealCapRate, marketMin, marketMax, marketAvg) ==
    IF RLt(dealCapRate, RMul(marketMin, Dec(8, 10))) THEN "OVERVALUED"
    ELSE IF RGt(dealCapRate, RMul(marketMax, Dec(12, 10))) THEN "UNDERVALUED"
    ELSE IF RGt(RDiv(MathAbs(RSub(dealCapRate, marketAvg)), marketAvg), Dec(15, 100))
    THEN "REVIEW_REQUIRED"
    ELSE "WITHIN_RANGE"

\* C13: with market data present, validatePropertyValue classifies the deal cap
\* rate NOI / propertyValue * 100 as OVERVALUED below 0.8 times the market
\* minimum, else UNDERVALUED above 1.2 times the market maximum, else
\* REVIEW_REQUIRED when it is more than 15% of the market average away from
\* that average, else WITHIN_RANGE; and isValid is true exactly when the
\* classification is neither OVERVALUED nor UNDERVALUED.
C13_Classification ==
    (/\ ret.op = "performMarketValidation"
     /\ ret.val.results.validation # NULL)
    => /\ ret.val.results.validation.marketData # NULL
       /\ ret.val.results.validation.validation =
              MarketClass(RMul(RDiv(ret.val.inputs.annualNOI,
                                    ret.val.inputs.propertyValue), N(100)),
                          ret.val.results.marketData.minRate,
                          ret.val.results.marketData.maxRate,
                          ret.val.results.marketData.avgRate)
       /\ ret.val.results.validation.isValid
              = (ret.val.results.validation.validation
                     \notin {"OVERVALUED", "UNDERVALUED"})

\* a deal cap rate of 4 against the market rates 5 and 6: on the lower bound,
\* more than 15% below the average 5.5
C13_Witness ==
    /\ ret.op = "performMarketValidation"
    /\ ret.val.inputs.annualNOI = N(4000)
    /\ ret.val.results.validation # NULL
    /\ ret.val.results.validation.marketData.minRate = N(5)
    /\ ret.val.results.validation.marketData.maxRate = N(6)
    /\ ret.val.results.validation.validation = "REVIEW_REQUIRED"
    /\ ret.val.results.validation.isValid

\* C14: isValidCapRate(s) is true exactly when s parses as a number x with
\* 1 <= x <= 15, both ends included: '1.0' and '15.0' are valid, '0.5',
\* '16.0', 'abc' and '' are not.
C14_ValidCapRate ==
    ret.op = "isValidCapRate"
    => /\ ret.val.valid
              = (/\ ~IsNaN(ParseFloat(ret.val.value))
                 /\ RLe(N(1), ParseFloat(ret.val.value))
                 /\ RLe(ParseFloat(ret.val.value), N(15)))
       /\ ret.val.value \in {<<"1", ".", "0">>, <<"1", "5", ".", "0">>} => ret.val.valid
       /\ ret.val.value \in {<<"0", ".", "5">>, <<"1", "6", ".", "0">>, <<"a", "b", "c">>, <<>>}
              => ~ret.val.valid

C14_Witness ==
    /\ ret.op = "isValidCapRate"
    /\ ret.val.value = <<"1", "5", ".", "0">>
    /\ ret.val.valid

\* the value the documentation gives calculateAverage for the parsed bounds
AverageOfParsed(lowNum, highNum) ==
    CASE ~IsNaN(lowNum) /\ ~IsNaN(highNum) -> RDiv(RAdd(lowNum, highNum), N(2))
      [] ~IsNaN(lowNum) /\ IsNaN(highNum) -> lowNum
      [] IsNaN(lowNum) /\ ~IsNaN(highNum) -> highNum
      [] IsNaN(lowNum) /\ IsNaN(highNum) -> NULL

\* C17: calculateAverage(low, high) is the mean of the two bounds when both
\* parse as numbers, the one that parses when exactly one does, and null when
\* neither does; a bound outside the cap rate range still takes part.
C17_Average ==
    ret.op = "calculateAverage"
    => /\ ret.val.average
              = AverageOfParsed(ParseFloat(ret.val.low), ParseFloat(ret.val.high))
       /\ (ret.val.low = <<"0", ".", "5">> /\ ret.val.high = <<"1", "6", ".", "0">>)
              => ret.val.average = Dec(825, 100)
       /\ (ret.val.low = <<>> /\ ret.val.high = <<"a", "b", "c">>)
              => ret.val.average = NULL
       /\ (ret.val.low = <<"a", "b", "c">> /\ ret.val.high = <<"5", ".", "5">>)
              => ret.val.average = Dec(55, 10)

\* an average of a bound below and a bound above the cap rate range
C17_Witness ==
    /\ ret.op = "calculateAverage"
    /\ ret.val.low = <<"0", ".", "5">>
    /\ ret.val.high = <<"1", "6", ".", "0">>
    /\ ret.val.average = Dec(825, 100)

\* the admissibility invariant of the documentation, on a raw or processed row
Admissible(row) ==
    /\ \E year \in 2020..2025 : ParseInt(row.Report_Year) = N(year)
    /\ \E half \in {1, 2} : ParseInt(row.Report_Half) = N(half)
    /\ row.Sector # UNDEFINED
    /\ Len(row.Sector) >= 3
    /\ \E rate \in {row.H1_Low, row.H1_High, row.H2_Low, row.H2_High} :
           IsValidCapRate(rate)

\* the columns of the file in a processed row
RawPart(row) ==
    Row(row.Sector, row.Market, row.H1_Low, row.H1_High, row.H2_Low, row.H2_High,
        row.Report_Year, row.Report_Half)

C16_HalfLabelsAdmitted ==
    (/\ ret.op = "processData"
     /\ ret.val.rawData \in {MockRows, TimeSeriesRows})
    => /\ Len(ret.val.processed) = Len(ret.val.rawData)
       /\ \A i \in DOMAIN ret.val.processed :
              ret.val.processed[i].period_key
                  = ret.val.rawData[i].Report_Year \o <<"_">>
                        \o ret.val.rawData[i].Report_Half
       /\ ret.val.rawData = TimeSeriesRows
              => ret.val.processed[1].period_key = <<"2", "0", "2", "3", "_", "H", "1">>

\* the processed records of a sector, whatever their market
RecordsOfSector(sector) ==
    SelectSeq(RowsOf(processedData), LAMBDA row : row.Sector = sector)

\* C18: an admitted record whose market name is invalid stays in the processed
\* dataset and contributes to the sector and period aggregates (every sector
\* with records is compared, over all its records), while it never appears
\* in a market-level view.
C18_InvalidMarketInSectorAggregates ==
    /\ processedData # NULL
           => processedData.rows
                  = ProcessedRows(SelectSeq(file, Admissible))
    /\ ret.op = "getSectorComparison"
           => /\ \A i \in DOMAIN ret.val :
                     ret.val[i].count = Len(RecordsOfSector(ret.val[i].sector))
              /\ \A row \in Range(RowsOf(processedData)) :
                     Truthy(RateOf(row))
                         => \E i \in DOMAIN ret.val : ret.val[i].sector = row.Sector
    /\ ret.op = "getMarkets"
           => \A row \in Range(RowsOf(processedData)) :
                  ~row.is_valid_market => row.Market \notin Range(ret.val)
    /\ ret.op = "getMarketRanking"
           => \A row \in Range(RowsOf(processedData)) :
                  ~row.is_valid_market
                      => \A i \in DOMAIN ret.val.ranking :
                             ret.val.ranking[i].market # row.Market

\* C19: the dashboard statistics take exactly one rate from each record, its
\* h1 average when present, otherwise its h2 average; no record contributes
\* both averages.
C19_OneRatePerRecord ==
    (ret.op = "updateStatistics" /\ ret.val # NULL)
    => /\ Len(ret.val.allRates) <= ret.val.totalRecords
       /\ ret.val.allRates = RatesOf(RowsOf(processedData))
       /\ ret.val.avgCapRate
              = ToFixed(MeanOrZero(RatesOf(RowsOf(processedData))), 2)

\* the processed records of a sector in a period, of the market asked for
\* when one is
MatchingRecords(sector, period, filterMarket) ==
    SelectSeq(RowsOf(processedData),
              LAMBDA row : /\ row.Sector = sector
                           /\ row.period_key = period
                           /\ filterMarket # UNDEFINED => row.Market = filterMarket)

\* period a is before period b: numeric year, then numeric half
Before(a, b) ==
    \/ RLt(YearOfKey(a), YearOfKey(b))
    \/ YearOfKey(a) = YearOfKey(b) /\ RLt(HalfOfKey(a), HalfOfKey(b))

\* the mean of the rates of the records, as a number of two decimals
MeanRate(records) == ToFixed(RDiv(SumOf(RatesOf(records)), N(Len(records))), 2)

\* C20: getMultiSectorTimeSeriesData returns, for every listed sector, one
\* entry per period of the chronologically sorted period list, in the same
\* order; the entry is null, never 0, when no record of that sector matches
\* the period, and otherwise the mean rate of the matching records.
C20_NullOnlyWithoutRecords ==
    (ret.op = "getMultiSectorTimeSeriesData" /\ processedData # NULL)
    => /\ Range(ret.val.result.periods)
              = {row.period_key : row \in Range(processedData.rows)}
       /\ \A i \in DOMAIN ret.val.result.periods :
              \A j \in DOMAIN ret.val.result.periods :
                  i < j => Before(ret.val.result.periods[i], ret.val.result.periods[j])
       /\ Range(ret.val.result.sectors)
              = IF ret.val.filterSector # UNDEFINED THEN {ret.val.filterSector}
                ELSE {row.Sector : row \in Range(processedData.rows)}
       /\ DOMAIN ret.val.result.data = Range(ret.val.result.sectors)
       /\ \A sector \in Range(ret.val.result.sectors) :
              /\ DOMAIN ret.val.result.data[sector] = DOMAIN ret.val.result.periods
              /\ \A i \in DOMAIN ret.val.result.periods :
                     ret.val.result.data[sector][i]
                         = IF MatchingRecords(sector, ret.val.result.periods[i],
                                              ret.val.filterMarket) = <<>>
                           THEN NULL
                           ELSE MeanRate(MatchingRecords(sector,
                                                         ret.val.result.periods[i],
                                                         ret.val.filterMarket))

\* the processed records of a market that has a valid name
RecordsOfMarket(market) ==
    SelectSeq(RowsOf(processedData),
              LAMBDA row : row.Market = market /\ row.is_valid_market)

\* the mean rate of a market, as a number of two decimals
MarketMean(market) == MeanRate(RecordsOfMarket(market))

\* the valid markets with at least one rate (and a mean above 0)
RankedMarkets ==
    {market \in {row.Market : row \in {r \in Range(RowsOf(processedData)) :
                                          r.is_valid_market}} :
        RGt(MarketMean(market), N(0))}

TrendPeriods == GetPeriods(processedData)

\* the rates, one for each record, of the records of the given periods
PeriodRates(periods) == RatesOf(RowsIn(RowsOf(processedData), periods))

\* the mean rate of the two most recent periods less the mean rate of the two earliest
TrendDelta ==
    RSub(Mean(PeriodRates(SubSeq(TrendPeriods, Len(TrendPeriods) - 1, Len(TrendPeriods)))),
         Mean(PeriodRates(SubSeq(TrendPeriods, 1, 2))))

\* C22: the trend of the statistics is 'Insufficient Data' exactly when the records have
\* fewer than two distinct period keys; otherwise it is exactly one of Rising, Falling and
\* Stable and no other value: Rising when the mean rate of the two most recent periods
\* less the mean rate of the two earliest is at least 0.1, Falling when it is at most
\* -0.1, Stable when it is less than 0.1 in absolute value
C22_TrendOfMeanRates ==
    (ret.op = "updateStatistics" /\ ret.val # NULL) =>
        /\ (ret.val.trendDirection = "Insufficient Data") <=> (Len(TrendPeriods) < 2)
        /\ Len(TrendPeriods) >= 2 =>
              /\ ret.val.trendDirection \in {"Rising", "Falling", "Stable"}
              /\ (ret.val.trendDirection = "Rising") <=> RGe(TrendDelta, Dec(1, 10))
              /\ (ret.val.trendDirection = "Falling") <=> RLe(TrendDelta, RNeg(Dec(1, 10)))
              /\ (ret.val.trendDirection = "Stable") <=> RLt(MathAbs(TrendDelta), Dec(1, 10))

\* the records of a period
RecordsOfPeriod(period) ==
    SelectSeq(RowsOf(processedData), LAMBDA row : row.period_key = period)

\* C30: with exactly two distinct periods the two most recent periods and the two
\* earliest are the same periods, and the trend is never Rising or Falling whatever the
\* rates of the two periods are; with three periods the records of the middle period are
\* counted on both sides of the comparison
C30_SharedPeriods ==
    (ret.op = "updateStatistics" /\ ret.val # NULL) =>
        /\ Len(TrendPeriods) = 2 => ret.val.trendDirection \in {"Stable", "No Trend Data"}
        /\ Len(TrendPeriods) = 3 =>
              ret.val.trendDirection =
                  TrendOf(BothRates(RecordsOfPeriod(TrendPeriods[2])
                                    \o RecordsOfPeriod(TrendPeriods[3])),
                          BothRates(RecordsOfPeriod(TrendPeriods[1])
                                    \o RecordsOfPeriod(TrendPeriods[2])))

\* two periods whose rates are 0.2 apart, and the trend is Stable
C30_Witness ==
    /\ ret.op = "updateStatistics"
    /\ ret.val # NULL
    /\ TrendPeriods = << <<"2", "0", "2", "2", "_", "1">>, <<"2", "0", "2", "3", "_", "2">> >>
    /\ ret.val.allRates = <<N(5), Dec(52, 10)>>
    /\ ret.val.trendDirection = "Stable"

\* three periods, the rates of the middle one on both sides
C30_WitnessThree ==
    /\ ret.op = "updateStatistics"
    /\ ret.val # NULL
    /\ Len(TrendPeriods) = 3
    /\ ret.val.allRates = <<N(5), Dec(55, 10), Dec(52, 10)>>
    /\ ret.val.trendDirection = "Rising"

\* the place of a decision in the order
\* STRONG APPROVE > APPROVE > CONDITIONAL > REVIEW REQUIRED > HIGH RISK > DECLINE
DecisionRank(decision) ==
    CASE decision = "STRONG APPROVE" -> 6
      [] decision = "APPROVE" -> 5
      [] decision = "CONDITIONAL" -> 4
      [] decision = "REVIEW REQUIRED" -> 3
      [] decision = "HIGH RISK" -> 2
      [] decision = "DECLINE" -> 1

\* the metrics dscr = d/100, actualLTV = l, actualCapRate = c/10
GridMetrics(d, l, c) == [dscr |-> Dec(d, 100), actualLTV |-> N(l), actualCapRate |-> Dec(c, 10)]

\* the metrics m are at least as good as the metrics w in each of the three
AtLeastAsGood(m, w) ==
    /\ RGe(m.dscr, w.dscr)
    /\ RLe(m.actualLTV, w.actualLTV)
    /\ RGe(m.actualCapRate, w.actualCapRate)

\* C29: the credit decision is monotone: a deal whose dscr is not lower, whose LTV is
\* not higher and whose cap rate is not lower than those of another deal never gets a
\* worse decision than that deal
C29_Monotone ==
    ret.op = "getCreditDecision" =>
        \A d \in DscrGrid, l \in LtvGrid, c \in CapGrid :
            AtLeastAsGood(ret.val.metrics, GridMetrics(d, l, c)) =>
                DecisionRank(ret.val.decision.decision)
                    >= DecisionRank(CreditDecision(GridMetrics(d, l, c)).decision)

\* a deal decided CONDITIONAL that is better in all three metrics than the REVIEW
\* REQUIRED deal of dscr 1.24, LTV 81, cap rate 4.4, and worse in one than an APPROVE deal
C29_Witness ==
    /\ ret.op = "getCreditDecision"
    /\ ret.val.metrics.dscr = Dec(129, 100)
    /\ ret.val.metrics.actualLTV = N(76)
    /\ ret.val.metrics.actualCapRate = Dec(54, 10)
    /\ ret.val.decision.decision = "CONDITIONAL"
    /\ CreditDecision(GridMetrics(124, 81, 44)).decision = "REVIEW REQUIRED"
    /\ CreditDecision(GridMetrics(130, 75, 55)).decision = "APPROVE"

\* C23: the records written as text by convertToCSV and parsed back by parseCSV are the
\* same records field for field, for every set of records, records with a comma in the
\* market or the sector included
C23_RoundTrip == ret.op = "parseCSV" => ret.val.rows = file

\* the queries of the data service
QueryNames ==
    {"getSectors", "getMarkets", "getPeriods", "filterData", "getTimeSeriesData",
     "getSectorComparison", "getMarketRanking", "getMultiSectorTimeSeriesData",
     "getMarketAnalysis", "getAdvancedStatistics"}

\* the queries that return a list
ListQueryNames ==
    {"getSectors", "getMarkets", "getPeriods", "filterData", "getTimeSeriesData",
     "getSectorComparison", "getMarketRanking"}

\* the arguments of the call r
ArgsOf(r) ==
    CASE r.op = "filterData" -> <<r.val.criteria>>
      [] r.op = "getTimeSeriesData" -> <<r.val.sector, r.val.market>>
      [] r.op = "getMarketRanking" -> <<r.val.limit>>
      [] r.op = "getMultiSectorTimeSeriesData" -> <<r.val.filterSector, r.val.filterMarket>>
      [] r.op = "getMarketAnalysis" -> <<r.val.market>>
      [] OTHER -> <<>>

\* the result of the call r
ResultOf(r) ==
    CASE r.op = "filterData" -> r.val.rows
      [] r.op = "getTimeSeriesData" -> r.val.series
      [] r.op = "getMarketRanking" -> r.val.ranking
      [] r.op = "getMultiSectorTimeSeriesData" -> r.val.result
      [] r.op = "getMarketAnalysis" -> r.val.analysis
      [] OTHER -> r.val

\* C24: every query of the data service leaves data and processedData unchanged, so a
\* query repeated with the same arguments returns an equal result; before any data is
\* loaded the queries that return a list return the empty list
C24_QueriesReadOnly ==
    [][ret'.op \in QueryNames =>
          /\ data' = data
          /\ processedData' = processedData
          /\ (ret.op = ret'.op /\ ArgsOf(ret) = ArgsOf(ret')) => ResultOf(ret') = ResultOf(ret)
          /\ (processedData = NULL /\ ret'.op \in ListQueryNames) => ResultOf(ret') = <<>>]_vars

\* a query on the loaded data that follows another query and returns records
C24_Witness ==
    /\ ret.op = "filterData"
    /\ processedData # NULL
    /\ Len(RowsOf(processedData)) = 3
    /\ ret.val.criteria.validMarketOnly
    /\ Len(ret.val.rows) = 2

\* a query before the load
C24_WitnessUnloaded == ret.op = "getMarketRanking" /\ processedData = NULL /\ ret.val.ranking = <<>>

\* C25: merging the same normalized batch a second time counts every record of the
\* batch as a duplicate and leaves the size of the dataset as it was after the first merge
C25_MergeIdempotent ==
    [][(ret.op = "merge_with_existing_data" /\ ret'.op = "merge_with_existing_data"
            /\ ret'.val.batch = ret.val.batch)
          => /\ ret'.val.duplicateRecords = Len(ret'.val.batch)
             /\ ret'.val.newRecords = 0
             /\ Len(file') = Len(file)]_vars

\* the second merge of a batch of three records, one of them with missing rates, whose
\* first merge added two records
C25_Witness ==
    /\ ret.op = "merge_with_existing_data"
    /\ Len(ret.val.batch) = 3
    /\ ret.val.batch[3].H2_Low = <<>>
    /\ ret.val.duplicateRecords = 3
    /\ Len(file) = 3

\* the result fields for the six values of the form: the metrics and the decision of
\* the deal with amortization = months / 12 and index rate = SOFR rate
EnteredResults ==
    Results(ComputeMetrics(ControllerDeal(ControllerInputs(dom.inputs))),
            CreditDecision(ComputeMetrics(ControllerDeal(ControllerInputs(dom.inputs)))))

\* C26: after a click on the Calculate button with six valid values in the form, once
\* every click listener of the button has run, the result fields show the metrics and the
\* credit decision of the deal built from the six values (amortization = months / 12,
\* index rate = the SOFR rate entered); no later listener has overwritten them
C26_ResultsOfEnteredValues ==
    (dispatch.event = "calculateDeal.click" /\ dispatch.pending = <<>>
        /\ ~HasMissingInputs(ControllerInputs(dom.inputs)))
    => dom.results = EnteredResults

\* C27: whenever the application is initialised its controller is initialised and the
\* data is loaded; a failed load leaves the application not initialised
C27_AppInitializedWithController ==
    app.isInitialized =>
        /\ controller.isInitialized
        /\ controller.dataService # "null"
        /\ processedData # NULL

\* the events of the page that are wired to the controller
ControllerEvents ==
    {"sectorFilter.change", "marketFilter.change", "periodFilter.change",
     "resetFilters.click", "exportData.click", "marketAnalysis.click"}

\* C28: after destroy() every event still wired to the controller completes without
\* effect and without a use of the dataService or the chartManager that were set to
\* null, and chartManager.updateCharts is called only while isInitialized is true
C28_EventsAfterDestroy ==
    /\ (app.pc = "done" /\ controller.dataService = "null" /\ ret.op \in ControllerEvents)
           => ret.val \in {"return", "alert: select a market"}
    /\ (ret.op \in ControllerEvents /\ ret.val = "updateCharts") => controller.isInitialized

=============================================================================
